---- MODULE Spec2Model ----
(***************************************************************************)
(* A model of the CASICS extractor: the identifier splitters, the corpus   *)
(* aggregator of gather_name_stats.py (name_frequencies and the local-mode *)
(* worker pool) and the element collector of file_parser.py.               *)
(*                                                                         *)
(* Names and identifiers are TLA+ strings; TLC evaluates Len, SubSeq and   *)
(* \o on them, so the string functions are computed character by           *)
(* character as the Python code computes them.                             *)
(***************************************************************************)
EXTENDS Integers, Sequences, FiniteSets, TLC

VARIABLES
    identifier,     \* splitters: the argument of the call
    splitter,       \* splitters: which function was called ("none" before)
    parts,          \* splitters: the list the call returned
    elements_list,  \* name_frequencies: its argument, one wrapper per repository
    idx,            \* name_frequencies: position of the for loop in elements_list
    names,          \* name_frequencies: the defaultdict, as (key, count) pairs
                    \*   in insertion order
    warnings,       \* name_frequencies: the full_path of every log.warn
    table,          \* name_frequencies: the sorted list it returns
    agg_pc,         \* name_frequencies: "idle", "tally", "done" or "raised"
    id_list,        \* local mode: the lines of the identifier file
    threads,        \* local mode: the size of the worker pool
    submitted,      \* local mode: how many paths went to pool.apply_async
    queue,          \* local mode: the tasks no worker has taken yet
    running,        \* local mode: the tasks a worker is executing
    elements,       \* local mode: the blist the callback appends to
    loc_pc,         \* local mode: "idle", "submit", "join" or "tally"
    collector,      \* file_elements: the ElementCollector, a record of its fields
    stack,          \* file_elements: the bodies the visitor is inside of,
                    \*   outermost first
    visited,        \* file_elements: how many statements the visitor has met
    statement,      \* file_elements: the statement the visitor met last
    result,         \* file_elements: the dictionary elements
    file_pc,        \* file_elements: "idle", "start", "tokenize", "parse",
                    \*   "parsed", "visit", "done" or "raised"
    source,         \* file_elements: the lines of the file
    stream,         \* file_elements: the lines of the open stream and how many
                    \*   of them have been read
    header,         \* file_elements: the header text
    comments,       \* file_elements: the comment chunks
    restart_point,  \* file_elements: the line of the stream the tree is
                    \*   parsed from, counted from 0
    dir_tree,       \* dir_elements_recursive: the directory it is called on
    activations,    \* dir_elements_recursive: the calls in progress, outermost
                    \*   first
    dir_result,     \* dir_elements_recursive: what the outermost call returns
    dir_pc,         \* dir_elements_recursive: "idle", "walk", "done" or "raised"
    comment_line,   \* ignorable_comment: the comment it is called on
    ignorable,      \* ignorable_comment: what it returned
    comment_pc,      \* ignorable_comment: "idle", "called" or "returned"
    word_wrapper,   \* all_words: the wrapper of the repository it is called on
    cache,          \* all_words: what is saved under the key 'all_words' for
                    \*   the path of the repository
    word_calls,      \* all_words: the calls made so far, each with its
                    \*   arguments and what it returned
    client_calls    \* Extractor (client): the calls of its methods so far,
                    \*   each with what the proxy did, what was logged and how
                    \*   the method ended

splitVars == <<identifier, splitter, parts>>

aggVars == <<elements_list, idx, names, warnings, table, agg_pc>>

locVars == <<id_list, threads, submitted, queue, running, elements, loc_pc>>

fileVars == <<collector, stack, visited, statement, result, file_pc>>

lexVars == <<source, stream, header, comments, restart_point>>

dirVars == <<dir_tree, activations, dir_result, dir_pc>>

comVars == <<comment_line, ignorable, comment_pc>>

wordVars == <<word_wrapper, cache, word_calls>>

clientVars == <<client_calls>>

vars == <<identifier, splitter, parts,
          elements_list, idx, names, warnings, table, agg_pc,
          id_list, threads, submitted, queue, running, elements, loc_pc,
          collector, stack, visited, statement, result, file_pc,
          source, stream, header, comments, restart_point,
          dir_tree, activations, dir_result, dir_pc,
          comment_line, ignorable, comment_pc,
          word_wrapper, cache, word_calls,
          client_calls>>

(***************************************************************************)
(* Characters.                                                             *)
(***************************************************************************)
LowerChars ==
    {"a","b","c","d","e","f","g","h","i","j","k","l","m",
     "n","o","p","q","r","s","t","u","v","w","x","y","z"}

UpperChars ==
    {"A","B","C","D","E","F","G","H","I","J","K","L","M",
     "N","O","P","Q","R","S","T","U","V","W","X","Y","Z"}

DigitChars == {"0","1","2","3","4","5","6","7","8","9"}

\* What str.split() with no argument splits on.
Whitespace == {" ", "\t", "\n", "\r"}

Char(s, i) == SubSeq(s, i, i)

CharsOf(s) == {Char(s, i) : i \in 1..Len(s)}

RECURSIVE JoinAll(_)
JoinAll(list) ==
    IF list = <<>> THEN "" ELSE Head(list) \o JoinAll(Tail(list))

(***************************************************************************)
(* Python string primitives used by the splitters.                         *)
(***************************************************************************)
\* str.split(): split on runs of whitespace, no empty strings in the result.
RECURSIVE PySplitFrom(_, _, _, _)
PySplitFrom(s, i, cur, acc) ==
    IF i > Len(s)
    THEN (IF cur = "" THEN acc ELSE Append(acc, cur))
    ELSE IF Char(s, i) \in Whitespace
         THEN PySplitFrom(s, i + 1, "", IF cur = "" THEN acc ELSE Append(acc, cur))
         ELSE PySplitFrom(s, i + 1, cur \o Char(s, i), acc)

PySplit(s) == PySplitFrom(s, 1, "", <<>>)

\* str.split(' '): split at every single space, empty strings kept.
RECURSIVE PySplitOnSpaceFrom(_, _, _, _)
PySplitOnSpaceFrom(s, i, cur, acc) ==
    IF i > Len(s)
    THEN Append(acc, cur)
    ELSE IF Char(s, i) = " "
         THEN PySplitOnSpaceFrom(s, i + 1, "", Append(acc, cur))
         ELSE PySplitOnSpaceFrom(s, i + 1, cur \o Char(s, i), acc)

\* str.translate with a table that maps every character of chars to a space.
RECURSIVE TranslateToSpace(_, _)
TranslateToSpace(s, chars) ==
    IF s = "" THEN ""
    ELSE (IF Head(s) \in chars THEN " " ELSE Head(s))
         \o TranslateToSpace(Tail(s), chars)

\* re.sub(r'((?<=[behind])[A-Z])', r' \1', s): a space goes in front of every
\* uppercase letter whose predecessor in s is in the look-behind class.
RECURSIVE CamelSubFrom(_, _, _)
CamelSubFrom(s, i, behind) ==
    IF i > Len(s) THEN ""
    ELSE (IF i > 1 /\ Char(s, i - 1) \in behind /\ Char(s, i) \in UpperChars
          THEN " " \o Char(s, i)
          ELSE Char(s, i))
         \o CamelSubFrom(s, i + 1, behind)

\* re.search(r'[A-Z][A-Z]', s), scanning from position i.
RECURSIVE SearchTwoCapitalsFrom(_, _)
SearchTwoCapitalsFrom(s, i) ==
    IF i + 1 > Len(s) THEN FALSE
    ELSE IF Char(s, i) \in UpperChars /\ Char(s, i + 1) \in UpperChars
         THEN TRUE
         ELSE SearchTwoCapitalsFrom(s, i + 1)

(***************************************************************************)
(* gather_name_stats.py, "From Spiral".                                    *)
(***************************************************************************)
_hard_split_chars == {"$", "~", "_", ".", ":", "/"}

_two_capitals(s) == SearchTwoCapitalsFrom(s, 1)

_camel_case(s) == CamelSubFrom(s, 1, LowerChars \cup DigitChars)

safe_camelcase_split_unguarded(identifier_) ==
    PySplit(_camel_case(identifier_))

safe_camelcase_split(identifier_) ==
    IF _two_capitals(identifier_)
    THEN <<identifier_>>
    ELSE PySplit(_camel_case(identifier_))

RECURSIVE FlattenCamel(_)
FlattenCamel(tokens) ==
    IF tokens = <<>> THEN <<>>
    ELSE PySplit(_camel_case(Head(tokens))) \o FlattenCamel(Tail(tokens))

simple_split(identifier_) ==
    FlattenCamel(PySplit(TranslateToSpace(identifier_, _hard_split_chars)))

(***************************************************************************)
(* id_splitters.py.                                                        *)
(***************************************************************************)
_delimiter_chars == {"_", ".", ":"}

delimiter_split(identifier_) ==
    SelectSeq(PySplitOnSpaceFrom(TranslateToSpace(identifier_, _delimiter_chars),
                                 1, "", <<>>),
              LAMBDA p : p # "")

naive_camelcase_split(identifier_) ==
    PySplit(CamelSubFrom(identifier_, 1, LowerChars))

(***************************************************************************)
(* The identifiers the splitters are called on: every string of at most    *)
(* MaxIdLen characters over IdAlphabet, and the examples of the docstrings.*)
(***************************************************************************)
MaxIdLen == 4

IdAlphabet == {"a", "B", "2", "_", "~", " "}

RECURSIVE StringsUpTo(_, _)
StringsUpTo(alphabet, n) ==
    IF n = 0 THEN {""}
    ELSE LET shorter == StringsUpTo(alphabet, n - 1)
         IN  shorter \cup {s \o c : s \in shorter, c \in alphabet}

DocIdentifiers ==
    {"fooBarBaz", "foo2bar", "SQLlite", "aFastNDecoder", "foo_bar2baz"}

Identifiers == StringsUpTo(IdAlphabet, MaxIdLen) \cup DocIdentifiers

AggIdle ==
    /\ elements_list = <<>>
    /\ idx = 1
    /\ names = <<>>
    /\ warnings = <<>>
    /\ table = <<>>
    /\ agg_pc = "idle"

SplitIdle ==
    /\ identifier = ""
    /\ splitter = "none"
    /\ parts = <<>>

LocIdle ==
    /\ id_list = <<>>
    /\ threads = 1
    /\ submitted = 0
    /\ queue = <<>>
    /\ running = {}
    /\ elements = <<>>
    /\ loc_pc = "idle"

FileIdle ==
    /\ collector = <<>>
    /\ stack = <<>>
    /\ visited = 0
    /\ statement = [node |-> "None"]
    /\ result = <<>>
    /\ file_pc = "idle"

LexIdle ==
    /\ source = <<>>
    /\ stream = [lines |-> <<>>, read |-> 0]
    /\ header = ""
    /\ comments = <<>>
    /\ restart_point = 0

ClientIdle ==
    /\ client_calls = <<>>

WordIdle ==
    /\ word_wrapper = [none |-> TRUE]
    /\ cache = [saved |-> FALSE, value |-> <<>>]
    /\ word_calls = <<>>

ComIdle ==
    /\ comment_line = ""
    /\ ignorable = FALSE
    /\ comment_pc = "idle"

DirIdle ==
    /\ dir_tree = <<>>
    /\ activations = <<>>
    /\ dir_result = <<>>
    /\ dir_pc = "idle"

SplitInit ==
    /\ identifier \in Identifiers
    /\ splitter = "none"
    /\ parts = <<>>
    /\ AggIdle
    /\ LocIdle
    /\ FileIdle
    /\ LexIdle
    /\ DirIdle
    /\ ComIdle
    /\ WordIdle
    /\ ClientIdle

CallSafeCamelcaseSplit ==
    /\ splitter = "none"
    /\ splitter' = "safe_camelcase_split"
    /\ parts' = safe_camelcase_split(identifier)
    /\ UNCHANGED identifier
    /\ UNCHANGED <<aggVars, locVars, fileVars, lexVars, dirVars, comVars, wordVars, clientVars>>

CallSimpleSplit ==
    /\ splitter = "none"
    /\ splitter' = "simple_split"
    /\ parts' = simple_split(identifier)
    /\ UNCHANGED identifier
    /\ UNCHANGED <<aggVars, locVars, fileVars, lexVars, dirVars, comVars, wordVars, clientVars>>

CallDelimiterSplit ==
    /\ splitter = "none"
    /\ splitter' = "delimiter_split"
    /\ parts' = delimiter_split(identifier)
    /\ UNCHANGED identifier
    /\ UNCHANGED <<aggVars, locVars, fileVars, lexVars, dirVars, comVars, wordVars, clientVars>>

CallNaiveCamelcaseSplit ==
    /\ splitter = "none"
    /\ splitter' = "naive_camelcase_split"
    /\ parts' = naive_camelcase_split(identifier)
    /\ UNCHANGED identifier
    /\ UNCHANGED <<aggVars, locVars, fileVars, lexVars, dirVars, comVars, wordVars, clientVars>>

SplitNext ==
    \/ CallSafeCamelcaseSplit
    \/ CallSimpleSplit
    \/ CallDelimiterSplit
    \/ CallNaiveCamelcaseSplit

SpecSplit == SplitInit /\ [][SplitNext]_vars

(***************************************************************************)
(* Claims about the splitters (checked under SpecSplit).                   *)
(***************************************************************************)
UpperCount(s) == Cardinality({i \in 1..Len(s) : Char(s, i) \in UpperChars})

HasAdjacentCapitals(s) ==
    \E i \in 1..(Len(s) - 1) :
        Char(s, i) \in UpperChars /\ Char(s, i + 1) \in UpperChars

\* The positions after which a part of ps ends and another begins, when the
\* parts are laid end to end.
Boundaries(ps) == {Len(JoinAll(SubSeq(ps, 1, k))) : k \in 1..(Len(ps) - 1)}

LowerUpperPositions(s) ==
    {i \in 1..(Len(s) - 1) :
        Char(s, i) \in LowerChars /\ Char(s, i + 1) \in UpperChars}

\* C1 (as amended): for every identifier that contains two ADJACENT uppercase
\* letters, safe_camelcase_split returns the one-element list holding the
\* identifier unchanged.
C1_AdjacentCapitalsLeftWhole ==
    (splitter = "safe_camelcase_split" /\ HasAdjacentCapitals(identifier))
        => parts = <<identifier>>

\* C1, witness: the safe split was called on an identifier with two adjacent
\* capitals that the camel-case rule alone would have cut, and left it whole.
C1_Witness ==
    /\ splitter = "safe_camelcase_split"
    /\ HasAdjacentCapitals(identifier)
    /\ safe_camelcase_split_unguarded(identifier) # <<identifier>>
    /\ parts = <<identifier>>

\* C1 (as stated): for every identifier that contains two or more uppercase
\* letters, adjacent or not, safe_camelcase_split returns [identifier].
C1_TwoCapitalsLeftWhole ==
    (splitter = "safe_camelcase_split" /\ UpperCount(identifier) >= 2)
        => parts = <<identifier>>

\* C2 (as stated): for every whitespace-free identifier that the safe split
\* does not leave whole, the parts concatenate back to the identifier and the
\* part boundaries are exactly the positions where a lowercase letter is
\* immediately followed by an uppercase letter.
C2_SplitExactlyAtLowerUpper ==
    ( /\ splitter = "safe_camelcase_split"
      /\ CharsOf(identifier) \cap Whitespace = {}
      /\ parts # <<identifier>> )
        => /\ JoinAll(parts) = identifier
           /\ Boundaries(parts) = LowerUpperPositions(identifier)

\* C3 (as stated): the hard-delimiter step treats underscore, dot, colon,
\* tilde and every digit as a delimiter: no component returned for any
\* identifier contains one of them, and foo_bar2baz gives foo, bar, baz.
C3_NoDelimiterOrDigitInParts ==
    /\ splitter \in {"simple_split", "delimiter_split"}
        => \A k \in 1..Len(parts) :
              CharsOf(parts[k]) \cap ({"_", ".", ":", "~"} \cup DigitChars) = {}
    /\ (splitter = "simple_split" /\ identifier = "foo_bar2baz")
        => parts = <<"foo", "bar", "baz">>

(***************************************************************************)
(* The values dir_elements returns (extractor/dir_parser.py).              *)
(***************************************************************************)
\* Python's None, where a record may stand.
None == [none |-> TRUE]

wrapper_dict(path, elements_) == [full_path |-> path, elements |-> elements_]

\* What dir_elements_recursive returns for a directory.
dir_dict(name, contents) == [name |-> name, type |-> "dir", body |-> contents]

\* The five counted collections of file_elements, each a list of
\* (name, count) pairs, as the body of the record of a Python file.
py_file(name, calls, functions, classes, variables, imports) ==
    [name |-> name, type |-> "file", code_language |-> "Python",
     status |-> "success",
     body |-> [calls |-> calls, functions |-> functions, classes |-> classes,
               variables |-> variables, imports |-> imports]]

\* The record of a document: text as body, no code language.
text_file(name, text) ==
    [name |-> name, type |-> "file", code_language |-> "None",
     status |-> "success", body |-> text]

(***************************************************************************)
(* The repositories of the model's file system, by path.                   *)
(*   missing: the path does not exist, dir_elements wraps None.            *)
(*   empty:   a directory without files.                                   *)
(*   docs:    a README and a Python file that defines nothing.             *)
(*   repoA:   one file that defines fooBar and calls it twice.             *)
(*   repoB:   one file with the variable foo_baz.                          *)
(*   repoC:   fooBar, foo_baz and bar over two files and a subdirectory.   *)
(*   repoD:   names with characters outside ASCII and a name of 31          *)
(*            characters.                                                   *)
(*   repoE:   the name aFastNDecoder of the module's documentation.         *)
(***************************************************************************)
RepoPaths == {"missing", "empty", "docs", "repoA", "repoB", "repoC"}

\* The repositories whose names try the decoding to ASCII, the bounds of the
\* length and the adjacent capitals; the runs over them are runs of their own.
DocRepoPaths == {"repoD", "repoE"}

\* A name of _max_name_length + 1 characters.
LongName == "abcdefghijklmnopqrstuvwxyzabcde"

RepoElements(path) ==
    CASE path = "missing" -> None
      [] path = "empty" -> dir_dict("empty", <<>>)
      [] path = "docs" ->
            dir_dict("docs",
                <<text_file("README.md", "fooBar is not counted here"),
                  py_file("__init__.py", <<>>, <<>>, <<>>, <<>>, <<>>)>>)
      [] path = "repoA" ->
            dir_dict("repoA",
                <<py_file("a.py", <<<<"fooBar", 2>>>>, <<<<"fooBar", 1>>>>,
                          <<>>, <<>>, <<>>)>>)
      [] path = "repoB" ->
            dir_dict("repoB",
                <<py_file("b.py", <<>>, <<>>, <<>>, <<<<"foo_baz", 1>>>>, <<>>)>>)
      [] path = "repoC" ->
            dir_dict("repoC",
                <<py_file("c.py", <<>>, <<<<"fooBar", 1>>>>, <<>>, <<>>,
                          <<<<"bar", 1>>>>),
                  text_file("NOTES.txt", "foo_baz"),
                  dir_dict("sub",
                      <<py_file("d.py", <<<<"fooBar", 3>>>>, <<>>, <<>>,
                                <<<<"foo_baz", 2>>, <<"bar", 1>>>>, <<>>)>>)>>)
      [] path = "repoD" ->
            dir_dict("repoD",
                <<py_file("e.py", <<>>, <<<<"caf^", 1>>>>, <<>>,
                          <<<<"^", 1>>, <<LongName, 1>>>>, <<>>)>>)
      [] path = "repoE" ->
            dir_dict("repoE",
                <<py_file("f.py", <<>>, <<>>, <<<<"aFastNDecoder", 1>>>>,
                          <<>>, <<>>)>>)
      [] OTHER -> None

\* dir_elements(path): the wrapper of the repository at path.
dir_elements(path) == wrapper_dict(path, RepoElements(path))

(***************************************************************************)
(* gather_name_stats.py: unique_names, name_frequencies.                   *)
(***************************************************************************)
_min_name_length == 1

_max_name_length == 30

\* Characters outside ASCII that occur in the model's names. The strings of
\* the model are written in ASCII: ^ stands for e with an acute accent and @
\* for u with a diaeresis; neither can occur in a Python name, and like the
\* letters they stand for neither is in a class of [a-z], [A-Z] or [0-9].
NonAsciiChars == {"^", "@"}

\* The value that stands for an exception propagating out of a function.
Raised == <<"<exception>">>

Range(seq) == {seq[i] : i \in 1..Len(seq)}

\* Every order in which a list made from the set S can come out.
SeqsOfSet(S) ==
    {f \in [1..Cardinality(S) -> S] : \A i, j \in 1..Cardinality(S) :
                                          f[i] = f[j] => i = j}

\* list(value[0] for value in pairs)
Firsts(pairs) == [i \in 1..Len(pairs) |-> pairs[i][1]]

RECURSIVE unique_names_recursive(_)
RECURSIVE unique_names_of_body(_)

\* The loop of unique_names_recursive over elements['body'].
unique_names_of_body(items) ==
    IF items = <<>> THEN <<>>
    ELSE LET item == Head(items)
         IN  (IF item.type = "dir"
              THEN unique_names_recursive(item)
              ELSE IF "code_language" \in DOMAIN item
                      /\ item.code_language = "Python"
                   THEN Firsts(item.body.calls)
                        \o Firsts(item.body.functions)
                        \o Firsts(item.body.classes)
                        \o Firsts(item.body.variables)
                        \o Firsts(item.body.imports)
                   ELSE <<>>)
             \o unique_names_of_body(Tail(items))

\* unique_names_recursive without its first test: 'type' in None raises.
unique_names_recursive_unguarded(elements_) ==
    IF elements_ = None THEN Raised
    ELSE IF "type" \in DOMAIN elements_ /\ elements_.type = "dir"
         THEN unique_names_of_body(elements_.body)
         ELSE <<>>

unique_names_recursive(elements_) ==
    IF elements_ = None THEN <<>>
    ELSE IF "type" \in DOMAIN elements_ /\ elements_.type = "dir"
         THEN unique_names_of_body(elements_.body)
         ELSE <<>>

\* unique_names without set(): every occurrence stays in the list.
unique_names_with_duplicates(elements_) ==
    {unique_names_recursive(elements_)}

\* list(set(results)) if results else []: the lists unique_names can return,
\* one for every iteration order of the set.
unique_names(elements_) ==
    LET results == unique_names_recursive(elements_)
    IN  IF results = <<>> THEN {<<>>} ELSE SeqsOfSet(Range(results))

\* The first inner loop of name_frequencies: expanded += simple_split(name).
RECURSIVE expand_names(_)
expand_names(names_in_repo) ==
    IF names_in_repo = <<>> THEN <<>>
    ELSE (IF Head(names_in_repo) = "" THEN <<>>
          ELSE simple_split(Head(names_in_repo)))
         \o expand_names(Tail(names_in_repo))

\* name.encode('utf8').decode('ascii', 'ignore')
RECURSIVE normalize_ascii(_)
normalize_ascii(name) ==
    IF name = "" THEN ""
    ELSE (IF Head(name) \in NonAsciiChars THEN "" ELSE Head(name))
         \o normalize_ascii(Tail(name))

\* names[name] += 1 on a defaultdict(int): a new key goes to the end.
increment(names_, name) ==
    IF \E i \in 1..Len(names_) : names_[i][1] = name
    THEN [i \in 1..Len(names_) |->
             IF names_[i][1] = name THEN <<name, names_[i][2] + 1>>
             ELSE names_[i]]
    ELSE Append(names_, <<name, 1>>)

\* The second inner loop of name_frequencies without the test of the length.
RECURSIVE count_components_unfiltered(_, _)
count_components_unfiltered(names_, expanded) ==
    IF expanded = <<>> THEN names_
    ELSE count_components_unfiltered(
             increment(names_, normalize_ascii(Head(expanded))), Tail(expanded))

\* The second inner loop of name_frequencies.
RECURSIVE count_components(_, _)
count_components(names_, expanded) ==
    IF expanded = <<>> THEN names_
    ELSE LET name == normalize_ascii(Head(expanded))
             length == Len(name)
         IN  count_components(
                 IF length >= _min_name_length /\ length <= _max_name_length
                 THEN increment(names_, name) ELSE names_,
                 Tail(expanded))

\* The body of the outer loop with the dictionary created anew in it.
tally_repo_fresh_dict(names_, names_in_repo) ==
    IF names_in_repo # <<>>
    THEN count_components(<<>>, expand_names(names_in_repo))
    ELSE <<>>

\* The body of the outer loop of name_frequencies on one repository's names.
tally_repo(names_, names_in_repo) ==
    IF names_in_repo # <<>>
    THEN count_components(names_, expand_names(names_in_repo))
    ELSE names_

\* sorted(items, key=itemgetter(1), reverse=True): stable, so every item goes
\* behind the items whose count is not smaller.
RECURSIVE sorted_by_count_from(_, _)
sorted_by_count_from(items, done) ==
    IF items = <<>> THEN done
    ELSE LET item == Head(items)
             k == Cardinality({i \in 1..Len(done) : done[i][2] >= item[2]})
         IN  sorted_by_count_from(
                 Tail(items),
                 SubSeq(done, 1, k) \o <<item>> \o SubSeq(done, k + 1, Len(done)))

Reverse(seq) == [i \in 1..Len(seq) |-> seq[Len(seq) + 1 - i]]

\* sorted(items, key=itemgetter(1)) turned round: equal counts change places.
sorted_ascending_reversed(items) ==
    sorted_by_count_from(Reverse(items), <<>>)

sorted_by_count(items) == sorted_by_count_from(items, <<>>)

\* name_frequencies as a function of its argument, every set iterated in one
\* fixed order.
RECURSIVE name_frequencies_from(_, _)
name_frequencies_from(names_, list) ==
    IF list = <<>> THEN sorted_by_count(names_)
    ELSE name_frequencies_from(
             tally_repo(names_,
                        CHOOSE names_in_repo \in unique_names(Head(list).elements) :
                            TRUE),
             Tail(list))

name_frequencies(list) == name_frequencies_from(<<>>, list)

(***************************************************************************)
(* name_frequencies, one action per iteration of its outer loop.           *)
(***************************************************************************)
MaxRepos == 3

RECURSIVE SeqsUpTo(_, _)
SeqsUpTo(S, n) ==
    IF n = 0 THEN {<<>>}
    ELSE LET shorter == SeqsUpTo(S, n - 1)
         IN  shorter \cup {Append(q, x) : q \in shorter, x \in S}

AggInit ==
    /\ elements_list \in
          SeqsUpTo({dir_elements(p) : p \in RepoPaths}, MaxRepos)
             \cup UNION {SeqsOfSet({dir_elements(p) : p \in paths}) :
                            paths \in SUBSET DocRepoPaths}
    /\ idx = 1
    /\ names = <<>>
    /\ warnings = <<>>
    /\ table = <<>>
    /\ agg_pc = "tally"
    /\ SplitIdle
    /\ LocIdle
    /\ FileIdle
    /\ LexIdle
    /\ DirIdle
    /\ ComIdle
    /\ WordIdle
    /\ ClientIdle

\* An iteration whose repository has names: split them and count.
TallyRepo ==
    /\ agg_pc = "tally"
    /\ idx <= Len(elements_list)
    /\ LET wrapper == elements_list[idx]
       IN  IF unique_names_recursive(wrapper.elements) = Raised
           THEN /\ agg_pc' = "raised"
                /\ UNCHANGED <<idx, names, warnings>>
           ELSE \E names_in_repo \in unique_names(wrapper.elements) :
                    /\ names_in_repo # <<>>
                    /\ names' = tally_repo(names, names_in_repo)
                    /\ idx' = idx + 1
                    /\ UNCHANGED <<warnings, agg_pc>>
    /\ UNCHANGED <<elements_list, table>>
    /\ UNCHANGED <<splitVars, locVars, fileVars, lexVars, dirVars, comVars, wordVars, clientVars>>

\* An iteration whose repository has no names: the else branch, log.warn.
SkipEmptyRepo ==
    /\ agg_pc = "tally"
    /\ idx <= Len(elements_list)
    /\ LET wrapper == elements_list[idx]
       IN  /\ unique_names_recursive(wrapper.elements) # Raised
           /\ \E names_in_repo \in unique_names(wrapper.elements) :
                    /\ names_in_repo = <<>>
                    /\ names' = tally_repo(names, names_in_repo)
                    /\ warnings' = Append(warnings, wrapper.full_path)
                    /\ idx' = idx + 1
    /\ UNCHANGED <<elements_list, table, agg_pc>>
    /\ UNCHANGED <<splitVars, locVars, fileVars, lexVars, dirVars, comVars, wordVars, clientVars>>

\* After the loop: return sorted(names.items(), ...).
ReturnSorted ==
    /\ agg_pc = "tally"
    /\ idx > Len(elements_list)
    /\ table' = sorted_by_count(names)
    /\ agg_pc' = "done"
    /\ UNCHANGED <<elements_list, idx, names, warnings>>
    /\ UNCHANGED <<splitVars, locVars, fileVars, lexVars, dirVars, comVars, wordVars, clientVars>>

AggNext ==
    \/ TallyRepo
    \/ SkipEmptyRepo
    \/ ReturnSorted

SpecAgg == AggInit /\ [][AggNext]_vars

(***************************************************************************)
(* Claims about name_frequencies (checked under SpecAgg).                  *)
(***************************************************************************)
\* The names found in the Python files of a directory tree, as a set.
RECURSIVE NamesIn(_)
NamesIn(elements_) ==
    IF elements_ = None \/ "type" \notin DOMAIN elements_ THEN {}
    ELSE IF elements_.type = "dir"
         THEN UNION {NamesIn(elements_.body[i]) : i \in 1..Len(elements_.body)}
         ELSE IF elements_.code_language = "Python"
              THEN UNION {{pair[1] : pair \in Range(elements_.body[kind])} :
                          kind \in {"calls", "functions", "classes",
                                    "variables", "imports"}}
              ELSE {}

\* How many times a name occurs in the files of a directory tree, over all
\* files and kinds (the per-file counts not included).
EntriesIn(elements_) == Len(unique_names_recursive(elements_))

\* The components of one name that are counted.
CountedComponents(name) ==
    IF name = "" THEN <<>>
    ELSE LET split == simple_split(name)
         IN  SelectSeq([k \in 1..Len(split) |-> normalize_ascii(split[k])],
                       LAMBDA c : Len(c) >= _min_name_length
                                  /\ Len(c) <= _max_name_length)

\* One triple for every component of every distinct name of every repository.
Occurrences(list) ==
    UNION {UNION {{<<i, name, k>> : k \in 1..Len(CountedComponents(name))} :
                  name \in NamesIn(list[i].elements)} :
           i \in 1..Len(list)}

ExpectedCount(list, component) ==
    Cardinality({t \in Occurrences(list) :
                    CountedComponents(t[2])[t[3]] = component})

KeysOf(pairs) == {pairs[i][1] : i \in 1..Len(pairs)}

\* A list of (key, count) pairs as a mapping, its order forgotten.
CountsOf(pairs) == Range(pairs)

YieldsNoNames(wrapper) == NamesIn(wrapper.elements) = {}

Permuted(list, perm) == [i \in 1..Len(list) |-> list[perm[i]]]

\* C4: each distinct name of a repository is split and counted exactly once
\* for that repository, however many files, kinds or occurrences it has
\* there, and a name present in k repositories is counted k times: the count
\* of a component is the number of its occurrences in the splits of the
\* distinct names, summed over the repositories.
C4_EachNameOncePerRepo ==
    agg_pc = "done" =>
        /\ \A i \in 1..Len(table) :
              table[i][2] = ExpectedCount(elements_list, table[i][1])
        /\ \A t \in Occurrences(elements_list) :
              CountedComponents(t[2])[t[3]] \in KeysOf(table)
        /\ Cardinality(KeysOf(table)) = Len(table)

\* C4, witness: a finished run over a repository that lists a name more often
\* than once and shares a name with another repository of the run.
C4_Witness ==
    /\ agg_pc = "done"
    /\ \E i, j \in 1..Len(elements_list) :
          /\ i # j
          /\ EntriesIn(elements_list[i].elements)
                > Cardinality(NamesIn(elements_list[i].elements))
          /\ NamesIn(elements_list[i].elements)
                \cap NamesIn(elements_list[j].elements) # {}
    /\ \E k \in 1..Len(table) : table[k][2] >= 2

\* C5: for every permutation of the input sequence of repository results,
\* name_frequencies yields the same count for every component.
C5_CountsIndependentOfOrder ==
    agg_pc = "done" =>
        \A perm \in SeqsOfSet(1..Len(elements_list)) :
            CountsOf(name_frequencies(Permuted(elements_list, perm)))
                = CountsOf(table)

\* C5, witness: a finished run over two repositories with different names,
\* so that the other order of the two is another input.
C5_Witness ==
    /\ agg_pc = "done"
    /\ \E i, j \in 1..Len(elements_list) :
          /\ i < j
          /\ NamesIn(elements_list[i].elements) # {}
          /\ NamesIn(elements_list[j].elements) # {}
          /\ NamesIn(elements_list[i].elements)
                # NamesIn(elements_list[j].elements)
    /\ table # <<>>

PositionIn(pairs, key) == CHOOSE i \in 1..Len(pairs) : pairs[i][1] = key

\* C6: in the table name_frequencies returns, counts are non-increasing from
\* first to last entry, and two components with equal counts appear in the
\* order in which they were first counted.
C6_SortedDescendingStable ==
    agg_pc = "done" =>
        \A i, j \in 1..Len(table) :
            i < j =>
                /\ table[i][2] >= table[j][2]
                /\ table[i][2] = table[j][2] =>
                      PositionIn(names, table[i][1]) < PositionIn(names, table[j][1])

\* C6, witness: foo was counted before baz, both once, and the table keeps
\* foo in front of baz although baz comes first in the alphabet; a run with
\* a component of a higher count in front of a tie.
C6_Witness ==
    /\ agg_pc = "done"
    /\ Len(table) >= 3
    /\ table[1][2] > table[2][2]
    /\ \E i \in 1..(Len(table) - 1) :
          /\ table[i] = <<"foo", 1>> \/ table[i] = <<"bar", 1>>
          /\ table[i + 1] = <<"Bar", 1>> \/ table[i + 1] = <<"baz", 1>>

\* C8: a repository result whose elements are absent, empty or yield no names
\* is skipped with a warning and raises nothing: the final counts equal those
\* of the same run without that repository, and a run in which every
\* repository yields nothing returns the empty table.
C8_EmptyReposSkipped ==
    /\ agg_pc # "raised"
    /\ agg_pc = "done" =>
          /\ CountsOf(table)
                = CountsOf(name_frequencies(
                      SelectSeq(elements_list, LAMBDA w : ~YieldsNoNames(w))))
          /\ warnings
                = [i \in 1..Len(SelectSeq(elements_list, YieldsNoNames)) |->
                      SelectSeq(elements_list, YieldsNoNames)[i].full_path]
          /\ (\A i \in 1..Len(elements_list) : YieldsNoNames(elements_list[i]))
                => table = <<>>

\* C8, witness: a finished run that met a repository without elements, an
\* empty one and one whose files hold no names, warned of each, and counted
\* the names of another repository.
C8_Witness ==
    /\ agg_pc = "done"
    /\ \E i \in 1..Len(elements_list) : elements_list[i].elements = None
    /\ \E i \in 1..Len(elements_list) :
          /\ elements_list[i].elements # None
          /\ YieldsNoNames(elements_list[i])
    /\ \E i \in 1..Len(elements_list) : ~YieldsNoNames(elements_list[i])
    /\ Len(warnings) = 2
    /\ table # <<>>

(***************************************************************************)
(* gather_name_frequencies_local: the pool of worker processes.            *)
(***************************************************************************)
MaxIds == 3

MaxThreads == 2

\* The lines an identifier file can hold: a blank line and three paths.
LocalIds == {"", "repoA", "repoB", "missing"}

\* The first loop: blank lines are skipped, the order is kept.
local_paths(ids) == SelectSeq(ids, LAMBDA x : x # "")

LocalInit ==
    /\ id_list \in SeqsUpTo(LocalIds, MaxIds)
    /\ threads \in 1..MaxThreads
    /\ submitted = 0
    /\ queue = <<>>
    /\ running = {}
    /\ elements = <<>>
    /\ loc_pc = "submit"
    /\ AggIdle
    /\ SplitIdle
    /\ FileIdle
    /\ LexIdle
    /\ DirIdle
    /\ ComIdle
    /\ WordIdle
    /\ ClientIdle

\* pool.apply_async(dir_elements, args=(path, ...), callback=store_elements)
ApplyAsync ==
    /\ loc_pc = "submit"
    /\ submitted < Len(local_paths(id_list))
    /\ submitted' = submitted + 1
    /\ queue' = Append(queue, submitted + 1)
    /\ UNCHANGED <<id_list, threads, running, elements, loc_pc>>
    /\ UNCHANGED <<splitVars, aggVars, fileVars, lexVars, dirVars, comVars, wordVars, clientVars>>

\* pool.close() after the loop; pool.join() then waits.
PoolClose ==
    /\ loc_pc = "submit"
    /\ submitted = Len(local_paths(id_list))
    /\ loc_pc' = "join"
    /\ UNCHANGED <<id_list, threads, submitted, queue, running, elements>>
    /\ UNCHANGED <<splitVars, aggVars, fileVars, lexVars, dirVars, comVars, wordVars, clientVars>>

\* A free worker process takes the oldest task.
WorkerStart ==
    /\ queue # <<>>
    /\ Cardinality(running) < threads
    /\ running' = running \cup {Head(queue)}
    /\ queue' = Tail(queue)
    /\ UNCHANGED <<id_list, threads, submitted, elements, loc_pc>>
    /\ UNCHANGED <<splitVars, aggVars, fileVars, lexVars, dirVars, comVars, wordVars, clientVars>>

\* A worker finishes dir_elements(path); the pool calls store_elements(e).
WorkerFinish ==
    /\ \E task \in running :
          /\ running' = running \ {task}
          /\ elements' = Append(elements, dir_elements(local_paths(id_list)[task]))
    /\ UNCHANGED <<id_list, threads, submitted, queue, loc_pc>>
    /\ UNCHANGED <<splitVars, aggVars, fileVars, lexVars, dirVars, comVars, wordVars, clientVars>>

\* pool.join() returns; name_frequencies(elements, log) is called.
PoolJoined ==
    /\ loc_pc = "join"
    /\ queue = <<>>
    /\ running = {}
    /\ loc_pc' = "tally"
    /\ elements_list' = elements
    /\ agg_pc' = "tally"
    /\ UNCHANGED <<idx, names, warnings, table>>
    /\ UNCHANGED <<id_list, threads, submitted, queue, running, elements>>
    /\ UNCHANGED <<splitVars, fileVars, lexVars, dirVars, comVars, wordVars, clientVars>>

LocalNext ==
    \/ ApplyAsync
    \/ PoolClose
    \/ WorkerStart
    \/ WorkerFinish
    \/ PoolJoined
    \/ TallyRepo
    \/ SkipEmptyRepo
    \/ ReturnSorted

SpecLocal == LocalInit /\ [][LocalNext]_vars

(***************************************************************************)
(* Claims about local mode (checked under SpecLocal).                      *)
(***************************************************************************)
InInputOrder(ids) ==
    [i \in 1..Len(local_paths(ids)) |-> dir_elements(local_paths(ids)[i])]

\* C7 (as stated): in local mode the per-repository results are tallied in
\* the order of the input identifier list, whatever order the worker
\* processes finish in, so the table of a run, the order of tied components
\* included, is the table of the input in its order.
C7_TalliedInInputOrder ==
    /\ loc_pc = "tally" => elements_list = InInputOrder(id_list)
    /\ (loc_pc = "tally" /\ agg_pc = "done")
          => KeysOf(table) = KeysOf(name_frequencies(InInputOrder(id_list)))

(***************************************************************************)
(* file_parser.py: constants and the noise filter.                         *)
(***************************************************************************)
\* Python's None, where a string may stand.
NoneStr == "None"

_min_name_len == 3

_min_comment_len == 4

_min_string_len == 6

_ignorable_names ==
    {"_",
     "__abs__", "__add__", "__and__", "__ceil__", "__cmp__", "__coerce__",
     "__complex__", "__contains__", "__copy__", "__deepcopy__", "__del__",
     "__delete__", "__delitem__", "__dir__", "__div__", "__divmod__",
     "__eq__", "__float__", "__floor__", "__floordiv__", "__format__",
     "__ge__", "__get__", "__getitem__", "__gt__", "__hash__", "__hex__",
     "__iadd__", "__iand__", "__idiv__", "__ifloordiv__", "__ilshift__",
     "__imod__", "__imul__", "__index__", "__init__", "__int__",
     "__invert__", "__ior__", "__ipow__", "__irshift__", "__isub__",
     "__iter__", "__itruediv__", "__ixor__", "__le__", "__len__", "__long__",
     "__lshift__", "__lt__", "__missing__", "__mod__", "__mul__", "__ne__",
     "__neg__", "__new__", "__nonzero__", "__oct__", "__or__", "__pos__",
     "__pow__", "__radd__", "__rand__", "__rdiv__", "__rdivmod__", "__repr__",
     "__reversed__", "__rfloordiv__", "__rlshift__", "__rmod__", "__rmul__",
     "__ror__", "__round__", "__rpow__", "__rrshift__", "__rshift__",
     "__rsub__", "__rtruediv__", "__rxor__", "__set__", "__setitem__",
     "__sizeof__", "__str__", "__sub__", "__truediv__", "__trunc__",
     "__unicode__", "__xor__", "__import__",
     "abs", "all", "any", "ascii", "bin", "bool", "bytearray", "bytes",
     "callable", "chr", "classmethod", "compile", "complex", "delattr",
     "dict", "dir", "divmod", "enumerate", "eval", "exec", "filter",
     "float", "format", "frozenset", "getattr", "globals", "hasattr", "hash",
     "help", "hex", "id", "input", "int", "isinstance", "issubclass", "iter",
     "len", "list", "locals", "map", "max", "memoryview", "min", "next",
     "object", "oct", "ord", "pow", "print", "property", "range",
     "repr", "reversed", "round", "set", "setattr", "slice", "sorted",
     "staticmethod", "str", "sum", "super", "tuple", "type", "vars", "self",
     "zip",
     "add", "get", "join", "startswith", "endswith", "strip",
     "find", "index", "lstrip", "rstrip", "replace", "sub",
     "pop", "popitem", "values", "update", "copy", "clear",
     "items", "keys", "append", "appendleft", "ValueError",
     "SystemExit", "StopIteration", "KeyError", "RuntimeError"}

ignorable_string(thing) == Len(thing) < _min_string_len

\* ignorable_name with the length test left out.
ignorable_name_by_list_only(thing) == thing \in _ignorable_names

ignorable_name(thing) ==
    Len(thing) < _min_name_len \/ thing \in _ignorable_names

\* sep.join(list)
RECURSIVE str_join(_, _)
str_join(sep, list) ==
    IF list = <<>> THEN ""
    ELSE IF Len(list) = 1 THEN list[1]
    ELSE list[1] \o sep \o str_join(sep, Tail(list))

\* s.endswith(suffix)
endswith(s, suffix) ==
    /\ Len(suffix) <= Len(s)
    /\ SubSeq(s, Len(s) - Len(suffix) + 1, Len(s)) = suffix

\* s.rfind(ch) + 1: the position of the last ch in s, counted from 1, or 0.
RECURSIVE rfind_from(_, _, _)
rfind_from(s, ch, i) ==
    IF i = 0 THEN 0
    ELSE IF Char(s, i) = ch THEN i
    ELSE rfind_from(s, ch, i - 1)

(***************************************************************************)
(* Syntax tree nodes, as records; node is the class of the node.           *)
(***************************************************************************)
Name(id) == [node |-> "Name", id |-> id]

Attribute(value, attr) == [node |-> "Attribute", value |-> value, attr |-> attr]

Num == [node |-> "Num"]

Str(s) == [node |-> "Str", s |-> s]

Tuple(elts) == [node |-> "Tuple", elts |-> elts]

List(elts) == [node |-> "List", elts |-> elts]

keyword(arg, value) == [arg |-> arg, value |-> value]

Call(func, args, keywords) ==
    [node |-> "Call", func |-> func, args |-> args, keywords |-> keywords]

alias(name) == [name |-> name]

Import(names_) == [node |-> "Import", names |-> names_]

ImportFrom(module, names_) ==
    [node |-> "ImportFrom", module |-> module, names |-> names_]

Assign(targets, value) ==
    [node |-> "Assign", targets |-> targets, value |-> value]

Expr(value) == [node |-> "Expr", value |-> value]

Pass == [node |-> "Pass"]

Subscript(value, slice) ==
    [node |-> "Subscript", value |-> value, slice |-> slice]

ForLoop(target, iter, body, orelse) ==
    [node |-> "For", target |-> target, iter |-> iter, body |-> body,
     orelse |-> orelse]

\* for target in x: pass
For(target) == ForLoop(target, Name("x"), <<Pass>>, <<>>)

\* The head of a function definition: its name, the names of its parameters
\* and the default values; the body follows statement by statement.
FunctionDef(name, args, defaults) ==
    [node |-> "FunctionDef", name |-> name, args |-> args, defaults |-> defaults]

ClassDef(name) == [node |-> "ClassDef", name |-> name]

\* hasattr(node, 'value') for the statements above.
has_value(stmt) == stmt.node \in {"Expr", "Assign"}

(***************************************************************************)
(* NameVisitor.                                                            *)
(***************************************************************************)
\* The deque NameVisitor builds for a node: visit_Name, visit_Attribute.
RECURSIVE NameVisitor_parts(_)
RECURSIVE NameVisitor_parts_of(_)
NameVisitor_parts(node) ==
    CASE node.node = "Name" -> <<node.id>>
      [] node.node = "Attribute" ->
            IF node.value.node = "Name"
            THEN (IF node.value.id # "self"
                  THEN <<node.value.id, node.attr>>
                  ELSE <<node.attr>>)
            ELSE NameVisitor_parts(node.value) \o <<node.attr>>
      [] node.node \in {"Tuple", "List"} -> NameVisitor_parts_of(node.elts)
      [] node.node \in {"Num", "Str"} -> <<>>

\* generic_visit over the elements of a tuple or list: each name found is
\* put at the left of the deque.
NameVisitor_parts_of(elts) ==
    IF elts = <<>> THEN <<>>
    ELSE NameVisitor_parts_of(Tail(elts)) \o NameVisitor_parts(Head(elts))

\* NameVisitor.name after visit(node)
NameVisitor_name(node) == str_join(".", NameVisitor_parts(node))

(***************************************************************************)
(* ElementCollector.                                                       *)
(***************************************************************************)
\* ElementCollector.__init__
new_collector ==
    [imports |-> <<>>, classes |-> <<>>, functions |-> <<>>,
     docstrings |-> <<>>, variables |-> <<>>, comments |-> <<>>,
     strings |-> <<>>, calls |-> <<>>,
     _current_class |-> NoneStr, _current_function |-> NoneStr]

\* The list 'path' the handlers start their qualified names with.
scope_path(c) ==
    IF c._current_function # NoneStr THEN <<c._current_function>>
    ELSE IF c._current_class # NoneStr THEN <<c._current_class>>
    ELSE <<>>

RECURSIVE visit_expr(_, _)
RECURSIVE visit_exprs(_, _)
RECURSIVE visit_keywords(_, _)

visit_Str(c, node) ==
    IF ~ignorable_string(node.s)
    THEN [c EXCEPT !.strings = Append(@, node.s)]
    ELSE c

visit_Call(c, node) ==
    LET name == NameVisitor_name(node.func)
        c1 == IF ~ignorable_name(name)
              THEN [c EXCEPT !.calls = Append(@, name)]
              ELSE c
    IN  visit_keywords(visit_exprs(c1, node.args), node.keywords)

\* The loop of visit_Call over node.keywords.
visit_keywords(c, keywords) ==
    IF keywords = <<>> THEN c
    ELSE LET thing == Head(keywords)
             c1 == IF ~ignorable_name(thing.arg)
                   THEN [c EXCEPT !.functions =
                            Append(@, str_join(".", scope_path(c) \o <<thing.arg>>))]
                   ELSE c
         IN  visit_keywords(visit_expr(c1, thing.value), Tail(keywords))

\* visit_List, and the loops over node.args and node.args.defaults.
visit_exprs(c, nodes) ==
    IF nodes = <<>> THEN c
    ELSE visit_exprs(visit_expr(c, Head(nodes)), Tail(nodes))

\* self.visit(node) on an expression: the visit_ method of its class, or
\* generic_visit.
visit_expr(c, node) ==
    CASE node.node = "Str" -> visit_Str(c, node)
      [] node.node = "Call" -> visit_Call(c, node)
      [] node.node \in {"List", "Tuple"} -> visit_exprs(c, node.elts)
      [] node.node = "Attribute" -> visit_expr(c, node.value)
      [] node.node = "Subscript" ->
            visit_expr(visit_expr(c, node.value), node.slice)
      [] node.node \in {"Name", "Num"} -> c

\* Whether visiting the expression raises: ignorable_name(None) in the
\* keyword loop of visit_Call is len(None), a TypeError.
RECURSIVE expr_raises(_)
expr_raises(node) ==
    CASE node.node = "Call" ->
            \/ \E i \in 1..Len(node.args) : expr_raises(node.args[i])
            \/ \E i \in 1..Len(node.keywords) :
                  \/ node.keywords[i].arg = NoneStr
                  \/ expr_raises(node.keywords[i].value)
      [] node.node \in {"List", "Tuple"} ->
            \E i \in 1..Len(node.elts) : expr_raises(node.elts[i])
      [] node.node = "Attribute" -> expr_raises(node.value)
      [] node.node = "Subscript" ->
            expr_raises(node.value) \/ expr_raises(node.slice)
      [] node.node \in {"Name", "Num", "Str"} -> FALSE

\* The loop of visit_Assign over node.targets.
RECURSIVE visit_targets(_, _)
visit_targets(c, targets) ==
    IF targets = <<>> THEN c
    ELSE LET name == NameVisitor_name(Head(targets))
             c1 == IF ~ignorable_name(name)
                   THEN [c EXCEPT !.variables =
                            Append(@, str_join("|", scope_path(c) \o <<name>>))]
                   ELSE c
         IN  visit_targets(c1, Tail(targets))

visit_Assign(c, node) == visit_expr(visit_targets(c, node.targets), node.value)

\* iterate_tuples of visit_For.
RECURSIVE iterate_tuples(_, _)
iterate_tuples(c, tuple) ==
    IF tuple = <<>> THEN c
    ELSE LET var == Head(tuple)
             c1 == IF var.node = "Name"
                   THEN (IF ~ignorable_name(var.id)
                         THEN [c EXCEPT !.variables = Append(@, var.id)]
                         ELSE c)
                   ELSE IF var.node = "Tuple"
                        THEN iterate_tuples(c, var.elts)
                        ELSE visit_expr(c, var)
         IN  iterate_tuples(c1, Tail(tuple))

\* visit_For followed by a visit of the iterable of the loop.
visit_For_with_iter(c, node) ==
    visit_expr(IF node.target.node = "Name"
               THEN (IF ~ignorable_name(node.target.id)
                     THEN [c EXCEPT !.variables = Append(@, node.target.id)]
                     ELSE c)
               ELSE iterate_tuples(c, node.target.elts),
               node.iter)

\* visit_For on a target that is a Name or a Tuple.
visit_For(c, node) ==
    IF node.target.node = "Name"
    THEN (IF ~ignorable_name(node.target.id)
          THEN [c EXCEPT !.variables = Append(@, node.target.id)]
          ELSE c)
    ELSE iterate_tuples(c, node.target.elts)

\* visit_For on any other target reaches 'elif sinstance(...)': a NameError.
For_raises(node) == node.target.node \notin {"Name", "Tuple"}

visit_Import(c, node) ==
    [c EXCEPT !.imports = @ \o [i \in 1..Len(node.names) |-> node.names[i].name]]

RECURSIVE visit_ImportFrom_names(_, _, _)
visit_ImportFrom_names(c, module, names_) ==
    IF names_ = <<>> THEN c
    ELSE LET alias_ == Head(names_)
             c1 == IF alias_.name = "*"
                   THEN [c EXCEPT !.imports = Append(@, module)]
                   ELSE IF module # NoneStr
                        THEN [c EXCEPT !.imports =
                                 Append(@, module \o "." \o alias_.name)]
                        ELSE c
         IN  visit_ImportFrom_names(c1, module, Tail(names_))

visit_ImportFrom(c, node) == visit_ImportFrom_names(c, node.module, node.names)

visit_Expr(c, node) == visit_expr(c, node.value)

\* The name qualified with the last component of the path only.
qualified_name_by_last_component(c, name) ==
    IF ~ignorable_name(name)
    THEN LET path == scope_path(c)
             last == IF path = <<>> THEN <<>>
                     ELSE <<SubSeq(path[1], rfind_from(path[1], ".", Len(path[1])) + 1,
                                   Len(path[1]))>>
         IN  str_join(".", last \o <<name>>)
    ELSE NoneStr

\* func_name of visit_FunctionDef, class_name of visit_ClassDef.
qualified_name(c, name) ==
    IF ~ignorable_name(name)
    THEN str_join(".", scope_path(c) \o <<name>>)
    ELSE NoneStr

\* The loop over node.args.args with the path of the other handlers.
RECURSIVE visit_parameters_in_current_scope(_, _, _)
visit_parameters_in_current_scope(c, func_name, args) ==
    IF args = <<>> THEN c
    ELSE LET arg == Head(args)
             c1 == IF ~ignorable_name(arg)
                   THEN [c EXCEPT !.variables =
                            Append(@, str_join("|", scope_path(c) \o <<arg>>))]
                   ELSE c
         IN  visit_parameters_in_current_scope(c1, func_name, Tail(args))

\* The loop of visit_FunctionDef over node.args.args.
RECURSIVE visit_parameters(_, _, _)
visit_parameters(c, func_name, args) ==
    IF args = <<>> THEN c
    ELSE LET arg == Head(args)
             path == IF func_name # NoneStr THEN <<func_name>>
                     ELSE IF c._current_class # NoneStr
                          THEN <<c._current_class>>
                          ELSE <<>>
             c1 == IF ~ignorable_name(arg)
                   THEN [c EXCEPT !.variables =
                            Append(@, str_join("|", path \o <<arg>>))]
                   ELSE c
         IN  visit_parameters(c1, func_name, Tail(args))

\* visit_FunctionDef up to the loop over the body.
visit_FunctionDef_head(c, node) ==
    LET func_name == qualified_name(c, node.name)
        c1 == IF func_name # NoneStr
              THEN [c EXCEPT !.functions = Append(@, func_name)]
              ELSE c
    IN  visit_exprs(visit_parameters(c1, func_name, node.args), node.defaults)

\* visit_ClassDef up to the loop over the body.
visit_ClassDef_head(c, node) ==
    LET class_name == qualified_name(c, node.name)
    IN  IF class_name # NoneStr
        THEN [c EXCEPT !.classes = Append(@, class_name)]
        ELSE c

(***************************************************************************)
(* The walk of ElementCollector over the tree of one file.  The tree is    *)
(* met statement by statement, in the order the visitor reaches them;      *)
(* stack holds one frame for every body the walk is inside of.             *)
(***************************************************************************)
\* The number of statements of the file.
MaxStmts == 4

\* A body the walk is inside of: the class of the statement it belongs to,
\* func_name or class_name of its handler, the path that was in effect where
\* the statement was met, and whether the body loop is still before body[0].
frame(node, name, path) ==
    [node |-> node, name |-> name, path |-> path, first |-> TRUE]

\* The assignment before self.visit(thing) in the body loops of
\* visit_FunctionDef and visit_ClassDef; generic_visit makes none.
before_body_statement(c, frame_) ==
    CASE frame_.node = "FunctionDef" -> [c EXCEPT !._current_function = frame_.name]
      [] frame_.node = "ClassDef" -> [c EXCEPT !._current_class = frame_.name]
      [] frame_.node \in {"Module", "If"} -> c

\* The assignment after self.visit(thing) in the same loops.
after_body_statement(c, frame_) ==
    CASE frame_.node = "FunctionDef" -> [c EXCEPT !._current_function = NoneStr]
      [] frame_.node = "ClassDef" -> [c EXCEPT !._current_class = NoneStr]
      [] frame_.node \in {"Module", "If"} -> c

\* isinstance(first_thing, ast.Str) and first_thing.s
is_docstring(stmt) ==
    has_value(stmt) /\ stmt.value.node = "Str" /\ stmt.value.s # ""

\* Whether the body loop passes over the statement: visit_FunctionDef takes
\* body[1:] when body[0] is a doc string, visit_ClassDef whenever body[0]
\* has a value.
skipped_as_first(frame_, stmt) ==
    /\ frame_.first
    /\ has_value(stmt)
    /\ \/ frame_.node = "ClassDef"
       \/ frame_.node = "FunctionDef" /\ is_docstring(stmt)

\* self.visit(stmt) for a statement without a body of its own.
visit_statement(c, stmt) ==
    CASE stmt.node = "Import" -> visit_Import(c, stmt)
      [] stmt.node = "ImportFrom" -> visit_ImportFrom(c, stmt)
      [] stmt.node = "Assign" -> visit_Assign(c, stmt)
      [] stmt.node = "For" -> visit_For(c, stmt)
      [] stmt.node = "Expr" -> visit_Expr(c, stmt)
      [] stmt.node = "Pass" -> c

statement_raises(stmt) ==
    CASE stmt.node = "For" -> For_raises(stmt)
      [] stmt.node \in {"Assign", "Expr"} -> expr_raises(stmt.value)
      [] stmt.node \in {"Import", "ImportFrom", "Pass"} -> FALSE

ImportStatements ==
    {Import(<<alias("os")>>),
     Import(<<alias("one"), alias("two"), alias("three"), alias("four"),
              alias("five")>>),
     ImportFrom("foo", <<alias("bar")>>),
     ImportFrom(NoneStr, <<alias("*")>>)}

AssignStatements ==
    {Assign(<<Name("bar")>>, Num),
     Assign(<<Name("os")>>, Num),
     Assign(<<Attribute(Name("self"), "bar")>>, Call(Name("len"), <<>>, <<>>))}

\* for target in foo("some text"): baz = get() else: foo()
LoopWithBody(target) ==
    ForLoop(target, Call(Name("foo"), <<Str("some text")>>, <<>>),
            <<Assign(<<Name("baz")>>, Call(Name("get"), <<>>, <<>>))>>,
            <<Expr(Call(Name("foo"), <<>>, <<>>))>>)

ForStatements ==
    {LoopWithBody(Name("bar")),
     LoopWithBody(Tuple(<<Name("foo"), Tuple(<<Name("id")>>)>>)),
     LoopWithBody(Tuple(<<Name("foo"), List(<<Name("bar")>>)>>)),
     LoopWithBody(List(<<Name("bar")>>)),
     LoopWithBody(Tuple(<<Name("foo"), Subscript(Name("bar"), Str("long key"))>>))}

ExprStatements ==
    {Expr(Call(Name("foo"), <<>>, <<>>)),
     Expr(Call(Attribute(Name("bar"), "append"), <<Str("doc string")>>,
               <<keyword("key", Num)>>)),
     Expr(Call(Name("get"), <<>>, <<keyword(NoneStr, Num)>>)),
     Expr(Str("doc string")),
     Expr(Str(""))}

FunctionDefs ==
    {FunctionDef("foo", <<"self", "bar">>, <<>>),
     FunctionDef("get", <<"bar">>, <<Str("doc string")>>)}

ClassDefs == {ClassDef("Foo"), ClassDef("id")}

\* The dictionary elements as file_elements sets it up.
empty_elements ==
    [header |-> "", comments |-> <<>>, docstrings |-> <<>>, imports |-> <<>>,
     classes |-> <<>>, functions |-> <<>>, variables |-> <<>>,
     strings |-> <<>>, calls |-> <<>>]

\* file_elements up to collector.visit(tree), for a file that parses and
\* has neither header nor comments.
FileInit ==
    /\ collector = new_collector
    /\ stack = <<frame("Module", NoneStr, <<>>)>>
    /\ visited = 0
    /\ statement = [node |-> "None"]
    /\ result = empty_elements
    /\ file_pc = "visit"
    /\ SplitIdle
    /\ AggIdle
    /\ LocIdle
    /\ LexIdle
    /\ DirIdle
    /\ ComIdle
    /\ WordIdle
    /\ ClientIdle

\* The next statement of the innermost body is one without a body.
VisitBodyStatement(stmt) ==
    /\ file_pc = "visit"
    /\ visited < MaxStmts
    /\ LET frame_ == stack[Len(stack)]
       IN  IF skipped_as_first(frame_, stmt)
           THEN /\ collector' = IF is_docstring(stmt)
                                THEN [collector EXCEPT !.docstrings =
                                         Append(@, stmt.value.s)]
                                ELSE collector
                /\ file_pc' = file_pc
           ELSE IF statement_raises(stmt)
                THEN /\ file_pc' = "raised"
                     /\ UNCHANGED collector
                ELSE /\ collector' =
                            after_body_statement(
                                visit_statement(
                                    before_body_statement(collector, frame_), stmt),
                                frame_)
                     /\ file_pc' = file_pc
    /\ stack' = [stack EXCEPT ![Len(stack)].first = FALSE]
    /\ visited' = visited + 1
    /\ statement' = stmt
    /\ UNCHANGED result
    /\ UNCHANGED <<splitVars, aggVars, locVars, lexVars, dirVars, comVars, wordVars, clientVars>>

VisitImport == \E stmt \in ImportStatements : VisitBodyStatement(stmt)

VisitAssign == \E stmt \in AssignStatements : VisitBodyStatement(stmt)

VisitFor == \E stmt \in ForStatements : VisitBodyStatement(stmt)

VisitExpr == \E stmt \in ExprStatements : VisitBodyStatement(stmt)

VisitPass == VisitBodyStatement(Pass)

\* The next statement has a body: the visitor handles its head and the walk
\* goes into the body, which holds a statement at least.
EnterBody(stmt, c) ==
    /\ file_pc = "visit"
    /\ visited + 2 <= MaxStmts
    /\ collector' = c
    /\ stack' = Append([stack EXCEPT ![Len(stack)].first = FALSE],
                       frame(stmt.node,
                             IF stmt.node = "If" THEN NoneStr
                             ELSE qualified_name(
                                      before_body_statement(collector,
                                                            stack[Len(stack)]),
                                      stmt.name),
                             scope_path(before_body_statement(collector,
                                                              stack[Len(stack)]))))
    /\ visited' = visited + 1
    /\ statement' = stmt
    /\ UNCHANGED <<result, file_pc>>
    /\ UNCHANGED <<splitVars, aggVars, locVars, lexVars, dirVars, comVars, wordVars, clientVars>>

VisitFunctionDef ==
    \E stmt \in FunctionDefs :
        EnterBody(stmt, visit_FunctionDef_head(
                            before_body_statement(collector, stack[Len(stack)]),
                            stmt))

VisitClassDef ==
    \E stmt \in ClassDefs :
        EnterBody(stmt, visit_ClassDef_head(
                            before_body_statement(collector, stack[Len(stack)]),
                            stmt))

\* generic_visit of an if statement whose test is a name.
VisitIf ==
    EnterBody([node |-> "If"],
              before_body_statement(collector, stack[Len(stack)]))

\* The body loop is at its end: the handler returns into the loop of the
\* enclosing body.
LeaveBody ==
    /\ file_pc = "visit"
    /\ Len(stack) > 1
    /\ ~stack[Len(stack)].first
    /\ stack' = SubSeq(stack, 1, Len(stack) - 1)
    /\ collector' = after_body_statement(collector, stack[Len(stack) - 1])
    /\ UNCHANGED <<visited, statement, result, file_pc>>
    /\ UNCHANGED <<splitVars, aggVars, locVars, lexVars, dirVars, comVars, wordVars, clientVars>>

(***************************************************************************)
(* file_elements after collector.visit(tree).                              *)
(***************************************************************************)
\* list(collector.variables), the set left out.
unique_var_paths_without_set(variables) == {variables}

\* list(set(collector.variables)): the lists it can be.
unique_var_paths(variables) == SeqsOfSet(Range(variables))

\* x[x.rfind('|')+1:]
strip_path(x) == SubSeq(x, rfind_from(x, "|", Len(x)) + 1, Len(x))

RECURSIVE filter_variables(_, _)
filter_variables(calls, vars_) ==
    IF calls = <<>> THEN <<>>
    ELSE LET call == Head(calls)
             rest == filter_variables(Tail(calls), vars_)
         IN  IF ~\E name \in _ignorable_names : endswith(call, name)
             THEN <<call>> \o rest
             ELSE rest

(***************************************************************************)
(* text_extractor.clean_plain_text and the comment filters of file_parser. *)
(* The texts of the model are made of letters, digits, blanks, newlines,   *)
(* quotes, '#' and '!': they hold no divider line, no character NFKD       *)
(* changes, no reStructuredText tag and none of the ignored symbols, so    *)
(* those four substitutions have nothing to act on and are left out.       *)
(***************************************************************************)
startswith(s, prefix) ==
    /\ Len(s) >= Len(prefix)
    /\ SubSeq(s, 1, Len(prefix)) = prefix

\* Whether sub occurs in s.
contains(s, sub) ==
    \E i \in 1..(Len(s) - Len(sub) + 1) : SubSeq(s, i, i + Len(sub) - 1) = sub

\* The position of the first character of s at or after i that is not in
\* chars, Len(s) + 1 if there is none.
RECURSIVE skip_chars(_, _, _)
skip_chars(s, chars, i) ==
    IF i <= Len(s) /\ Char(s, i) \in chars
    THEN skip_chars(s, chars, i + 1)
    ELSE i

\* The position of the last character of s at or before i that is not in
\* chars, 0 if there is none.
RECURSIVE skip_chars_back(_, _, _)
skip_chars_back(s, chars, i) ==
    IF i >= 1 /\ Char(s, i) \in chars
    THEN skip_chars_back(s, chars, i - 1)
    ELSE i

\* str.strip()
strip(text) ==
    LET first == skip_chars(text, Whitespace, 1)
        last == skip_chars_back(text, Whitespace, Len(text))
    IN  IF first > last THEN "" ELSE SubSeq(text, first, last)

\* re.sub(_multiple_blank_line, '\n\n', text), for the text from i on.
RECURSIVE sub_multiple_blank_line(_, _)
sub_multiple_blank_line(text, i) ==
    IF i > Len(text) THEN ""
    ELSE LET j == skip_chars(text, {" ", "\t"}, i + 1)
             matches == /\ Char(text, i) = "\n"
                        /\ j + 1 <= Len(text)
                        /\ Char(text, j) = "\n"
                        /\ Char(text, j + 1) = "\n"
         IN  IF matches
             THEN "\n\n" \o sub_multiple_blank_line(text,
                                                    skip_chars(text, {"\n"}, j))
             ELSE Char(text, i) \o sub_multiple_blank_line(text, i + 1)

\* re.sub(_two_newlines, ' ', text): a newline with no newline before it and
\* a character other than a newline after it becomes a blank.
sub_two_newlines(text) ==
    JoinAll([i \in 1..Len(text) |->
                IF /\ Char(text, i) = "\n"
                   /\ (i = 1 \/ Char(text, i - 1) # "\n")
                   /\ i < Len(text)
                   /\ Char(text, i + 1) # "\n"
                THEN " "
                ELSE Char(text, i)])

\* The characters of _okay_ending_chars the texts of the model can hold.
_okay_ending_chars == {"-", "?", "!", ".", ",", ":", ";"}

\* re.sub(_okay_endings, r'\1.\2\n\n', text), for the text from i on.
RECURSIVE sub_okay_endings(_, _)
sub_okay_endings(text, i) ==
    IF i > Len(text) THEN ""
    ELSE LET j == skip_chars(text, {" ", "\t"}, i + 1)
             matches == /\ Char(text, i) \notin _okay_ending_chars
                        /\ j + 1 <= Len(text)
                        /\ Char(text, j) = "\n"
                        /\ Char(text, j + 1) = "\n"
         IN  IF matches
             THEN Char(text, i) \o "." \o SubSeq(text, i + 1, j - 1) \o "\n\n"
                  \o sub_okay_endings(text, j + 2)
             ELSE Char(text, i) \o sub_okay_endings(text, i + 1)

\* re.sub(_multiple_spaces, ' ', text), for the text from i on.
RECURSIVE sub_multiple_spaces(_, _)
sub_multiple_spaces(text, i) ==
    IF i > Len(text) THEN ""
    ELSE IF Char(text, i) \in Whitespace
         THEN " " \o sub_multiple_spaces(text, skip_chars(text, Whitespace, i))
         ELSE Char(text, i) \o sub_multiple_spaces(text, i + 1)

\* clean_plain_text(text); western is whether human_language(text) names one
\* of the languages of the list.
clean_plain_text(text, western) ==
    LET compressed == sub_two_newlines(sub_multiple_blank_line(text, 1))
    IN  IF ~western THEN strip(compressed)
        ELSE strip(sub_multiple_spaces(sub_okay_endings(compressed, 1), 1))

\* What clean_plain_text can return for a text, whatever language the
\* detector takes it for.
clean_plain_text_results(text) ==
    {clean_plain_text(text, western) : western \in BOOLEAN}

\* [clean_plain_text(c) for c in list]
RECURSIVE clean_each(_)
clean_each(list) ==
    IF list = <<>> THEN {<<>>}
    ELSE {<<cleaned>> \o rest : cleaned \in clean_plain_text_results(Head(list)),
                                rest \in clean_each(Tail(list))}

_comment_start == "#"

\* re.match(_nontext_comment, thing)
nontext_comment(thing) ==
    /\ thing # ""
    /\ CharsOf(thing) \cap (LowerChars \cup UpperChars) = {}

\* re.match(_coding_comment, thing), for a thing of one line
coding_comment(thing) == contains(thing, "coding:") \/ contains(thing, "coding=")

\* re.match(_vim_comment, thing)
vim_comment(thing) ==
    LET i == skip_chars(thing, {" ", "\t"}, 1)
    IN  startswith(SubSeq(thing, i, Len(thing)), "vim")

\* re.match(_emacs_comment, thing)
emacs_comment(thing) ==
    LET i == skip_chars(thing, {" ", "\t"}, 1)
        rest == SubSeq(thing, i, Len(thing))
        j == skip_chars(rest, {" ", "\t"}, 4)
    IN  /\ startswith(rest, "-*-")
        /\ j > 4
        /\ startswith(SubSeq(rest, j, Len(rest)), "mode:")

\* re.match(_hashbang_comment, thing)
hashbang_comment(thing) == startswith(thing, "#!")

ignorable_comment(thing) ==
    /\ startswith(strip(thing), _comment_start)
    /\ \/ Len(thing) < _min_comment_len
       \/ nontext_comment(thing)
       \/ coding_comment(thing)
       \/ vim_comment(thing)
       \/ emacs_comment(thing)
       \/ hashbang_comment(thing)

strip_comment_char(text) ==
    SubSeq(text, skip_chars(text, {"#", " ", "\t"}, 1), Len(text))

\* Counter(seq): the counts, in the order the items were first met.
RECURSIVE Counter_from(_, _)
Counter_from(counts, seq) ==
    IF seq = <<>> THEN counts
    ELSE Counter_from(increment(counts, Head(seq)), Tail(seq))

\* Counter(seq).items(): the counts as they are, not ordered by frequency.
countify_unsorted(seq) == Counter_from(<<>>, seq)

\* Counter(seq).most_common()
countify(seq) == sorted_by_count(Counter_from(<<>>, seq))

\* The dictionary file_elements returns once the tree has been visited, for
\* every order the set of variable paths can be listed in and every verdict
\* of the language detector.
file_elements_counted(elements_, c) ==
    {LET variables_ == [i \in 1..Len(paths) |-> strip_path(paths[i])]
         filtered_calls == filter_variables(c.calls, variables_)
     IN  [elements_ EXCEPT !.docstrings = docstrings,
                           !.imports = countify(c.imports),
                           !.classes = countify(c.classes),
                           !.functions = countify(c.functions),
                           !.variables = countify(variables_),
                           !.strings = countify(strings),
                           !.calls = countify(filtered_calls)] :
     paths \in unique_var_paths(c.variables),
     docstrings \in clean_each(c.docstrings),
     strings \in clean_each(c.strings)}

\* collector.visit(tree) has returned; the dictionary is filled and returned.
ReturnElements ==
    /\ file_pc = "visit"
    /\ Len(stack) = 1
    /\ result' \in file_elements_counted(result, collector)
    /\ file_pc' = "done"
    /\ UNCHANGED <<collector, stack, visited, statement>>
    /\ UNCHANGED <<splitVars, aggVars, locVars, lexVars, dirVars, comVars, wordVars, clientVars>>

FileNext ==
    \/ VisitImport
    \/ VisitAssign
    \/ VisitFor
    \/ VisitExpr
    \/ VisitPass
    \/ VisitFunctionDef
    \/ VisitClassDef
    \/ VisitIf
    \/ LeaveBody
    \/ ReturnElements

SpecFile == FileInit /\ [][FileNext]_vars

(***************************************************************************)
(* file_elements from its first line: the Python 2 test, the pass over the *)
(* tokens and the parse, for files made of the lines below.                *)
(***************************************************************************)
MaxLines == 3

\* Stands for a line holding a NUL byte, which ast.parse refuses with a
\* ValueError, a TypeError or a SyntaxError, depending on the interpreter.
NulLine == "x = NUL"

\* A for loop whose target is a list.
ForListLine == "for [ foo , bar ] in x : pass"

\* The lines the files are made of: a hash-bang line, a comment, a blank
\* line, a string, an import, a for loop over a list target, a Python 2
\* print statement, a Python 2 tuple parameter (no fixer of the list handles
\* it), a line neither Python accepts, and a line with a NUL byte.
Lines ==
    {"#!sh", "# foo", "", "\"doc\"", "import foo", ForListLine, "print \"x\"",
     "lambda ( a , b ) : a", "x = = 1", NulLine}

RECURSIVE LinesUpTo(_)
LinesUpTo(n) ==
    IF n = 0 THEN {<<>>}
    ELSE LinesUpTo(n - 1) \cup
         {Append(lines, line) : lines \in LinesUpTo(n - 1), line \in Lines}

\* How ast.parse on the lines of a file can end: "ok", "SyntaxError" or
\* "Exception", any other exception.
ast_parse_outcomes(lines) ==
    LET texts == {lines[i] : i \in 1..Len(lines)}
    IN  IF NulLine \in texts THEN {"Exception", "SyntaxError"}
        ELSE IF texts \cap {"print \"x\"", "lambda ( a , b ) : a", "x = = 1"} # {}
             THEN {"SyntaxError"}
             ELSE {"ok"}

\* The statement a line of a file that parses stands for.
RECURSIVE ast_parse(_)
ast_parse(lines) ==
    IF lines = <<>> THEN <<>>
    ELSE LET line == Head(lines)
             rest == ast_parse(Tail(lines))
         IN  CASE line = "import foo" -> <<Import(<<alias("foo")>>)>> \o rest
               [] line = "\"doc\"" -> <<Expr(Str("doc"))>> \o rest
               [] line = ForListLine ->
                      <<For(List(<<Name("foo"), Name("bar")>>))>> \o rest
               [] line = "print(\"x\")" ->
                      <<Expr(Call(Name("print"), <<Str("x")>>, <<>>))>> \o rest
               [] OTHER -> rest

\* The exit status of 2to3 on the lines of a file: the grammar of lib2to3
\* takes Python 2 and Python 3 statements alike.
shell_cmd_2to3_status(lines) ==
    IF \E i \in 1..Len(lines) : lines[i] = "x = = 1" THEN 1 ELSE 0

\* What 2to3 with the fixers of convert_python2_file writes into the
\* working file.
converted(lines) ==
    [i \in 1..Len(lines) |->
        IF lines[i] = "print \"x\"" THEN "print(\"x\")" ELSE lines[i]]

\* assumes_python2(stream): what it returns, where it leaves the stream and
\* whether it logs an error.
assumes_python2(lines) ==
    {CASE outcome = "ok" ->
             [python2 |-> FALSE, read |-> 0, logged |-> FALSE]
       [] outcome = "SyntaxError" ->
             [python2 |-> TRUE, read |-> Len(lines), logged |-> FALSE]
       [] outcome = "Exception" ->
             [python2 |-> FALSE, read |-> Len(lines), logged |-> TRUE] :
     outcome \in ast_parse_outcomes(lines)}

\* convert_python2_file(filename): the working file, or None.
convert_python2_file(lines) ==
    IF shell_cmd_2to3_status(lines) = 0
    THEN [name |-> "working_file", lines |-> converted(lines)]
    ELSE None

Token(kind, thing, line) == [kind |-> kind, thing |-> thing, line |-> line]

\* The position of the first ch in s at or after i, Len(s) + 1 if none.
RECURSIVE find_char(_, _, _)
find_char(s, ch, i) ==
    IF i > Len(s) \/ Char(s, i) = ch THEN i ELSE find_char(s, ch, i + 1)

\* The tokens tokenize makes of line number n from its character i on,
\* before the token that ends the line.
RECURSIVE line_tokens(_, _, _)
line_tokens(text, i, n) ==
    IF i > Len(text) THEN <<>>
    ELSE LET c == Char(text, i)
             word == LowerChars \cup UpperChars \cup DigitChars \cup {"_"}
         IN  CASE c \in {" ", "\t"} -> line_tokens(text, i + 1, n)
               [] c = "#" -> <<Token("COMMENT", SubSeq(text, i, Len(text)), n)>>
               [] c \in LowerChars \cup UpperChars \cup {"_"} ->
                      LET j == skip_chars(text, word, i)
                      IN  <<Token("NAME", SubSeq(text, i, j - 1), n)>>
                          \o line_tokens(text, j, n)
               [] c \in DigitChars ->
                      LET j == skip_chars(text, DigitChars, i)
                      IN  <<Token("NUMBER", SubSeq(text, i, j - 1), n)>>
                          \o line_tokens(text, j, n)
               [] c = "\"" ->
                      LET j == find_char(text, "\"", i + 1)
                      IN  IF j > Len(text)
                          THEN <<Token("ERRORTOKEN", c, n)>>
                               \o line_tokens(text, i + 1, n)
                          ELSE <<Token("STRING", SubSeq(text, i, j), n)>>
                               \o line_tokens(text, j + 1, n)
               [] OTHER -> <<Token("OP", c, n)>> \o line_tokens(text, i + 1, n)

\* The tokens of line number n: a line with nothing but a comment or blanks
\* ends with NL, any other with NEWLINE.
tokens_of_line(text, n) ==
    LET found == line_tokens(text, 1, n)
    IN  IF \A i \in 1..Len(found) : found[i].kind = "COMMENT"
        THEN found \o <<Token("NL", "\n", n)>>
        ELSE found \o <<Token("NEWLINE", "\n", n)>>

\* All the tokens tokenize(stream.readline) yields for a stream of which
\* read lines have been read already.
RECURSIVE tokens_from(_, _)
tokens_from(lines, n) ==
    IF n > Len(lines) THEN <<Token("ENDMARKER", "", n)>>
    ELSE tokens_of_line(lines[n], n) \o tokens_from(lines, n + 1)

tokenize(stream_) ==
    <<Token("ENCODING", "utf-8", 0)>>
    \o tokens_from(stream_.lines, stream_.read + 1)

\* The loop that looks for a header: the header gathered and the position
\* of the token it stops at.
RECURSIVE header_loop(_, _, _)
header_loop(tokens, i, header_) ==
    LET kind == tokens[i].kind
        thing == tokens[i].thing
    IN  IF kind = "ENCODING" THEN header_loop(tokens, i + 1, header_)
        ELSE IF ignorable_comment(thing) THEN header_loop(tokens, i + 1, header_)
        ELSE IF kind # "COMMENT" /\ kind # "NL" THEN [header |-> header_, at |-> i]
        ELSE header_loop(tokens, i + 1, header_ \o strip_comment_char(thing))

\* thing.replace('"', '')
without_quotes(thing) ==
    JoinAll([i \in 1..Len(thing) |->
                IF Char(thing, i) = "\"" THEN "" ELSE Char(thing, i)])

\* The loop that gathers the comment chunks, ended by the ENDMARKER token
\* before the token is looked at.
RECURSIVE comment_loop_until_endmarker(_, _, _, _)
comment_loop_until_endmarker(tokens, i, chunk, comments_) ==
    IF i > Len(tokens) \/ tokens[i].kind = "ENDMARKER" THEN comments_
    ELSE LET kind == tokens[i].kind
             thing == tokens[i].thing
         IN  IF kind = "NL"
             THEN comment_loop_until_endmarker(tokens, i + 1, chunk, comments_)
             ELSE IF kind = "COMMENT" /\ ~ignorable_comment(thing)
             THEN comment_loop_until_endmarker(
                      tokens, i + 1, chunk \o strip_comment_char(thing) \o "\n",
                      comments_)
             ELSE IF chunk # ""
             THEN comment_loop_until_endmarker(tokens, i + 1, "",
                                               Append(comments_, strip(chunk)))
             ELSE comment_loop_until_endmarker(tokens, i + 1, chunk, comments_)

\* The loop that gathers the comment chunks, from token i on. The test
\* thing != ENDMARKER compares a string with a number and never ends the
\* loop; the end of the tokens does.
RECURSIVE comment_loop(_, _, _, _)
comment_loop(tokens, i, chunk, comments_) ==
    IF i > Len(tokens) THEN comments_
    ELSE LET kind == tokens[i].kind
             thing == tokens[i].thing
         IN  IF kind = "NL"
             THEN comment_loop(tokens, i + 1, chunk, comments_)
             ELSE IF kind = "COMMENT" /\ ~ignorable_comment(thing)
             THEN comment_loop(tokens, i + 1,
                               chunk \o strip_comment_char(thing) \o "\n",
                               comments_)
             ELSE IF chunk # ""
             THEN comment_loop(tokens, i + 1, "", Append(comments_, strip(chunk)))
             ELSE comment_loop(tokens, i + 1, chunk, comments_)

\* Pass #1 on a stream: the header, the comments and the restart point, a
\* number of lines.
tokenize_pass(stream_) ==
    LET tokens == tokenize(stream_)
        stop == header_loop(tokens, 1, "")
        token_ == tokens[stop.at]
    IN  IF token_.kind = "STRING"
        THEN [header |-> stop.header \o " " \o without_quotes(token_.thing),
              restart_point |-> token_.line,
              comments |-> comment_loop(tokens, stop.at + 1, "", <<>>)]
        ELSE [header |-> stop.header,
              restart_point |-> token_.line - 1,
              comments |-> comment_loop(tokens, stop.at, "", <<>>)]

elements_without_text(elements_, header_, comments_) == {elements_}

\* elements with the header and the comments stored in it, for every verdict
\* of the language detector.
elements_with_text(elements_, header_, comments_) ==
    {[elements_ EXCEPT !.header = cleaned, !.comments = cleaned_comments] :
     cleaned \in clean_plain_text_results(header_),
     cleaned_comments \in clean_each(comments_)}

\* stream.seek(restart_point); stream.read()
rest_of(stream_, restart_point_) ==
    SubSeq(stream_.lines, restart_point_ + 1, Len(stream_.lines))

\* self.visit(stmt) for each statement of a module whose statements have
\* no body the visitor goes into: the collector, and whether a statement
\* raised.
RECURSIVE visit_statements(_, _)
visit_statements(c, stmts) ==
    IF stmts = <<>> THEN [collector |-> c, raised |-> FALSE]
    ELSE IF statement_raises(Head(stmts)) THEN [collector |-> c, raised |-> TRUE]
    ELSE visit_statements(visit_statement(c, Head(stmts)), Tail(stmts))

\* Files with comments between and behind statements.
CommentFiles ==
    {<<"import foo", "# foo", "# bar", "#!sh", "# foo">>,
     <<"\"doc\"", "# foo", "", "# bar", "import foo", "# foo">>,
     <<"# foo", "import foo", "# bar", "import foo", "# foo", "# bar">>}

PassesInit ==
    /\ source \in LinesUpTo(MaxLines) \cup CommentFiles
    /\ stream = [lines |-> source, read |-> 0]
    /\ header = ""
    /\ comments = <<>>
    /\ restart_point = 0
    /\ collector = <<>>
    /\ stack = <<>>
    /\ visited = 0
    /\ statement = [node |-> "None"]
    /\ result = empty_elements
    /\ file_pc = "start"
    /\ SplitIdle
    /\ AggIdle
    /\ LocIdle
    /\ DirIdle
    /\ ComIdle
    /\ WordIdle
    /\ ClientIdle

\* assumes_python2 parses the file: it is Python 3.
AssumesPython3 ==
    /\ file_pc = "start"
    /\ \E answer \in assumes_python2(source) :
          /\ ~answer.python2
          /\ ~answer.logged
          /\ stream' = [stream EXCEPT !.read = answer.read]
    /\ file_pc' = "tokenize"
    /\ UNCHANGED <<source, header, comments, restart_point>>
    /\ UNCHANGED <<collector, stack, visited, statement, result>>
    /\ UNCHANGED <<splitVars, aggVars, locVars, dirVars, comVars, wordVars, clientVars>>

\* assumes_python2 meets an exception other than SyntaxError, logs it and
\* answers False; the stream stays at its end.
AssumesPython3AfterError ==
    /\ file_pc = "start"
    /\ \E answer \in assumes_python2(source) :
          /\ ~answer.python2
          /\ answer.logged
          /\ stream' = [stream EXCEPT !.read = answer.read]
    /\ file_pc' = "tokenize"
    /\ UNCHANGED <<source, header, comments, restart_point>>
    /\ UNCHANGED <<collector, stack, visited, statement, result>>
    /\ UNCHANGED <<splitVars, aggVars, locVars, dirVars, comVars, wordVars, clientVars>>

\* assumes_python2 answers True and 2to3 converts the file: the stream is
\* now the working file.
ConvertPython2 ==
    /\ file_pc = "start"
    /\ \E answer \in assumes_python2(source) : answer.python2
    /\ convert_python2_file(source) # None
    /\ stream' = [lines |-> convert_python2_file(source).lines, read |-> 0]
    /\ file_pc' = "tokenize"
    /\ UNCHANGED <<source, header, comments, restart_point>>
    /\ UNCHANGED <<collector, stack, visited, statement, result>>
    /\ UNCHANGED <<splitVars, aggVars, locVars, dirVars, comVars, wordVars, clientVars>>

\* assumes_python2 answers True and 2to3 fails: the empty dictionary is
\* returned.
GiveUpOnConversion ==
    /\ file_pc = "start"
    /\ \E answer \in assumes_python2(source) :
          /\ answer.python2
          /\ stream' = [stream EXCEPT !.read = answer.read]
    /\ convert_python2_file(source) = None
    /\ file_pc' = "done"
    /\ UNCHANGED <<source, header, comments, restart_point>>
    /\ UNCHANGED <<collector, stack, visited, statement, result>>
    /\ UNCHANGED <<splitVars, aggVars, locVars, dirVars, comVars, wordVars, clientVars>>

\* Pass #1.
Tokenize ==
    /\ file_pc = "tokenize"
    /\ LET found == tokenize_pass(stream)
       IN  /\ header' = found.header
           /\ comments' = found.comments
           /\ restart_point' = found.restart_point
           /\ result' \in elements_with_text(result, found.header, found.comments)
    /\ stream' = [stream EXCEPT !.read = Len(stream.lines)]
    /\ file_pc' = "parse"
    /\ UNCHANGED <<source, collector, stack, visited, statement>>
    /\ UNCHANGED <<splitVars, aggVars, locVars, dirVars, comVars, wordVars, clientVars>>

\* Pass #2, ast.parse fails: what there is so far is returned.
ParseFailed ==
    /\ file_pc = "parse"
    /\ "ok" \notin ast_parse_outcomes(rest_of(stream, restart_point))
    /\ file_pc' = "done"
    /\ UNCHANGED <<source, stream, header, comments, restart_point>>
    /\ UNCHANGED <<collector, stack, visited, statement, result>>
    /\ UNCHANGED <<splitVars, aggVars, locVars, dirVars, comVars, wordVars, clientVars>>

\* Pass #2, ast.parse succeeds: the collector visits the tree, and an
\* exception of the visitor leaves file_elements.
VisitTree ==
    /\ file_pc = "parse"
    /\ "ok" \in ast_parse_outcomes(rest_of(stream, restart_point))
    /\ LET visit == visit_statements(new_collector,
                                     ast_parse(rest_of(stream, restart_point)))
       IN  /\ collector' = visit.collector
           /\ file_pc' = IF visit.raised THEN "raised" ELSE "visit"
    /\ stack' = <<frame("Module", NoneStr, <<>>)>>
    /\ UNCHANGED <<source, stream, header, comments, restart_point>>
    /\ UNCHANGED <<visited, statement, result>>
    /\ UNCHANGED <<splitVars, aggVars, locVars, dirVars, comVars, wordVars, clientVars>>

PassesNext ==
    \/ AssumesPython3
    \/ AssumesPython3AfterError
    \/ ConvertPython2
    \/ GiveUpOnConversion
    \/ Tokenize
    \/ ParseFailed
    \/ VisitTree
    \/ ReturnElements

SpecPasses == PassesInit /\ [][PassesNext]_vars

(***************************************************************************)
(* file_elements as a function of the lines of a file: every way it can    *)
(* end, put together from the passes above.                                *)
(***************************************************************************)
\* An exception that leaves a function.
Raises(exception) == [raised |-> exception]

\* Pass #1 and pass #2 on a stream: the dictionary returned, whether the
\* tree was visited to its end, or the exception of the visitor.
file_elements_from(stream_) ==
    LET found == tokenize_pass(stream_)
        rest == rest_of(stream_, found.restart_point)
        visit == visit_statements(new_collector, ast_parse(rest))
    IN  UNION {IF "ok" \notin ast_parse_outcomes(rest)
               THEN {[elements |-> elements_, completed |-> FALSE]}
               ELSE IF visit.raised
                    THEN {Raises("NameError")}
                    ELSE {[elements |-> counted, completed |-> TRUE] :
                          counted \in file_elements_counted(elements_,
                                                            visit.collector)} :
               elements_ \in elements_with_text(empty_elements, found.header,
                                                found.comments)}

file_elements(lines) ==
    UNION {IF answer.python2
           THEN (IF convert_python2_file(lines) = None
                 THEN {[elements |-> empty_elements, completed |-> FALSE]}
                 ELSE file_elements_from(
                          [lines |-> convert_python2_file(lines).lines,
                           read |-> 0]))
           ELSE file_elements_from([lines |-> lines, read |-> answer.read]) :
           answer \in assumes_python2(lines)}

(***************************************************************************)
(* extractor/dir_parser.py: dir_elements_recursive.                        *)
(***************************************************************************)
MaxFiles == 2

\* A Python string where a dictionary or None may stand.
Text(s) == [text |-> s]

\* A file of a directory: what the tests of the walk find it to be, the
\* lines of a Python file, the text of a document.
File(name, kind, lines, text) ==
    [name |-> name, kind |-> kind, lines |-> lines, text |-> text]

\* The files of the model's directories: one that is gone by the time it is
\* looked at, an empty one, three Python files (one that parses, one that
\* neither Python 3 nor 2to3 can parse, one with a for loop over a list
\* target), a document and a picture.
Files ==
    {File("gone.tmp", "missing", <<>>, ""),
     File("empty.py", "empty", <<>>, ""),
     File("ok.py", "python", <<"import foo">>, ""),
     File("bad.py", "python", <<"x = = 1">>, ""),
     File("loop.py", "python", <<"import foo", ForListLine>>, ""),
     File("README.md", "document", <<>>, "foo bar"),
     File("logo.png", "other", <<>>, "")}

\* The lists of at most n different files.
RECURSIVE FilesUpTo(_)
FilesUpTo(n) ==
    IF n = 0 THEN {<<>>}
    ELSE LET shorter == FilesUpTo(n - 1)
         IN  shorter \cup
             UNION {{Append(files, file) : file \in Files \ Range(files)} :
                    files \in shorter}

Directory(name, files, subdirs) ==
    [name |-> name, files |-> files, subdirs |-> subdirs]

\* The directories dir_elements_recursive is called on: at most MaxFiles
\* files in all, and at most one subdirectory, which may be one the walk
\* ignores.
Directories ==
    {Directory("repo", files, <<>>) : files \in FilesUpTo(MaxFiles)}
    \cup {Directory("repo", files, <<Directory(".git", <<>>, <<>>)>>) :
          files \in FilesUpTo(MaxFiles)}
    \cup {Directory("repo", pair[1], <<Directory("sub", pair[2], <<>>)>>) :
          pair \in {p \in FilesUpTo(MaxFiles) \X FilesUpTo(MaxFiles) :
                        Len(p[1]) + Len(p[2]) <= MaxFiles}}

exists(file) == file.kind # "missing"

excessively_large_file(file) == file.kind = "large"

empty_file(file) == file.kind = "empty"

ignorable_file(file) == file.kind = "ignored"

python_file(file) == file.kind = "python"

is_code_file(file) == file.kind = "code"

document_file(file) == file.kind = "document"

ignorable_dir(dir) == dir.name = ".git"

\* The languages the detector tells apart here.
Languages == {"en", "fr"}

\* human_language(text)
human_language(text) == Languages

\* extract_text(file)
extract_text(file) == Text(file.text)

with_parse_result_error(outcome) ==
    [key \in DOMAIN outcome.elements \cup {"parse_result"} |->
        IF key = "parse_result" THEN "error" ELSE outcome.elements[key]]

\* The dictionary of file_elements with the 'parse_result' the walk reads:
\* 'success' for a parse that went through, 'error' when something went
\* wrong and what there was is returned.
with_parse_result(outcome) ==
    [key \in DOMAIN outcome.elements \cup {"parse_result"} |->
        IF key = "parse_result"
        THEN (IF outcome.completed THEN "success" ELSE "error")
        ELSE outcome.elements[key]]

isinstance_dict(elements_) == DOMAIN elements_ \cap {"text", "none"} = {}

\* The languages elements_text_language can name.
elements_text_language(elements_) ==
    IF elements_.header = "" /\ elements_.comments = <<>>
    THEN {"en"}
    ELSE Languages

file_dict(filename, elements_, code_lang, text_lang, explicit_status) ==
    LET status == IF explicit_status # NoneStr THEN explicit_status
                  ELSE IF isinstance_dict(elements_)
                       THEN elements_.parse_result
                       ELSE IF elements_ # None /\ elements_ # Text("")
                            THEN "success"
                            ELSE "error"
    IN  [name |-> filename, type |-> "file", body |-> elements_,
         text_language |-> text_lang, code_language |-> code_lang,
         status |-> status]

\* What the loop over the files appends to contents for a file that is not
\* a Python file.
file_records(file) ==
    IF excessively_large_file(file)
    THEN {file_dict(file.name, None, NoneStr, NoneStr, "large")}
    ELSE IF empty_file(file)
    THEN {file_dict(file.name, Text(""), NoneStr, NoneStr, "empty")}
    ELSE IF ignorable_file(file)
    THEN {file_dict(file.name, None, NoneStr, NoneStr, "ignored")}
    ELSE IF is_code_file(file)
    THEN {file_dict(file.name, None, NoneStr, NoneStr, "unsupported")}
    ELSE IF document_file(file)
    THEN {file_dict(file.name, extract_text(file), NoneStr, lang, NoneStr) :
          lang \in human_language(extract_text(file))}
    ELSE {file_dict(file.name, None, NoneStr, NoneStr, "unhandled")}

\* One call of dir_elements_recursive: the directory, how many of its files
\* and subdirectories have been dealt with, and contents.
activation(dir) == [dir |-> dir, files |-> 0, subdirs |-> 0, contents |-> <<>>]

DirInit ==
    /\ dir_tree \in Directories
    /\ activations = <<activation(dir_tree)>>
    /\ dir_result = <<>>
    /\ dir_pc = "walk"
    /\ SplitIdle
    /\ AggIdle
    /\ LocIdle
    /\ FileIdle
    /\ LexIdle
    /\ ComIdle
    /\ WordIdle
    /\ ClientIdle

\* The file the innermost call looks at next.
next_file == LET top == activations[Len(activations)]
             IN  top.dir.files[top.files + 1]

at_file ==
    /\ dir_pc = "walk"
    /\ activations[Len(activations)].files <
           Len(activations[Len(activations)].dir.files)

\* The file is gone: a warning, and on to the next.
SkipMissingFile ==
    /\ at_file
    /\ ~exists(next_file)
    /\ activations' = [activations EXCEPT ![Len(activations)].files = @ + 1]
    /\ UNCHANGED <<dir_tree, dir_result, dir_pc>>
    /\ UNCHANGED <<splitVars, aggVars, locVars, fileVars, lexVars, comVars, wordVars, clientVars>>

\* A file that is not a Python file gets its record.
RecordFile ==
    /\ at_file
    /\ exists(next_file)
    /\ ~(python_file(next_file) /\ ~excessively_large_file(next_file)
         /\ ~empty_file(next_file) /\ ~ignorable_file(next_file))
    /\ \E record \in file_records(next_file) :
          activations' = [activations EXCEPT
                             ![Len(activations)].files = @ + 1,
                             ![Len(activations)].contents = Append(@, record)]
    /\ UNCHANGED <<dir_tree, dir_result, dir_pc>>
    /\ UNCHANGED <<splitVars, aggVars, locVars, fileVars, lexVars, comVars, wordVars, clientVars>>

is_python_file ==
    /\ at_file
    /\ exists(next_file)
    /\ ~excessively_large_file(next_file)
    /\ ~empty_file(next_file)
    /\ ~ignorable_file(next_file)
    /\ python_file(next_file)

\* file_elements returns for a Python file: the file gets its record.
RecordPythonFile ==
    /\ is_python_file
    /\ \E outcome \in file_elements(next_file.lines) :
          /\ "raised" \notin DOMAIN outcome
          /\ \E lang \in elements_text_language(outcome.elements) :
                activations' =
                    [activations EXCEPT
                        ![Len(activations)].files = @ + 1,
                        ![Len(activations)].contents =
                            Append(@, file_dict(next_file.name,
                                                with_parse_result(outcome),
                                                "Python", lang, NoneStr))]
    /\ UNCHANGED <<dir_tree, dir_result, dir_pc>>
    /\ UNCHANGED <<splitVars, aggVars, locVars, fileVars, lexVars, comVars, wordVars, clientVars>>

\* file_elements raises: nothing in the walk catches the exception, and it
\* leaves every call in progress.
FileElementsRaises ==
    /\ is_python_file
    /\ \E outcome \in file_elements(next_file.lines) : "raised" \in DOMAIN outcome
    /\ dir_pc' = "raised"
    /\ UNCHANGED <<dir_tree, activations, dir_result>>
    /\ UNCHANGED <<splitVars, aggVars, locVars, fileVars, lexVars, comVars, wordVars, clientVars>>

at_subdir ==
    /\ dir_pc = "walk"
    /\ LET top == activations[Len(activations)]
       IN  /\ top.files = Len(top.dir.files)
           /\ top.subdirs < Len(top.dir.subdirs)

next_subdir == LET top == activations[Len(activations)]
               IN  top.dir.subdirs[top.subdirs + 1]

SkipIgnorableDir ==
    /\ at_subdir
    /\ ignorable_dir(next_subdir)
    /\ activations' = [activations EXCEPT ![Len(activations)].subdirs = @ + 1]
    /\ UNCHANGED <<dir_tree, dir_result, dir_pc>>
    /\ UNCHANGED <<splitVars, aggVars, locVars, fileVars, lexVars, comVars, wordVars, clientVars>>

\* dir_elements_recursive(dir) is called.
EnterSubdir ==
    /\ at_subdir
    /\ ~ignorable_dir(next_subdir)
    /\ activations' = Append(activations, activation(next_subdir))
    /\ UNCHANGED <<dir_tree, dir_result, dir_pc>>
    /\ UNCHANGED <<splitVars, aggVars, locVars, fileVars, lexVars, comVars, wordVars, clientVars>>

\* A call of dir_elements_recursive returns: to the call that made it, which
\* appends the dictionary to its contents, or out of the walk.
ReturnDir ==
    /\ dir_pc = "walk"
    /\ LET top == activations[Len(activations)]
           returned == dir_dict(top.dir.name, top.contents)
       IN  /\ top.files = Len(top.dir.files)
           /\ top.subdirs = Len(top.dir.subdirs)
           /\ IF Len(activations) = 1
              THEN /\ activations' = <<>>
                   /\ dir_result' = returned
                   /\ dir_pc' = "done"
              ELSE /\ activations' =
                          [SubSeq(activations, 1, Len(activations) - 1) EXCEPT
                              ![Len(activations) - 1].subdirs = @ + 1,
                              ![Len(activations) - 1].contents =
                                  Append(@, returned)]
                   /\ UNCHANGED <<dir_result, dir_pc>>
    /\ UNCHANGED dir_tree
    /\ UNCHANGED <<splitVars, aggVars, locVars, fileVars, lexVars, comVars, wordVars, clientVars>>

DirNext ==
    \/ SkipMissingFile
    \/ RecordFile
    \/ RecordPythonFile
    \/ FileElementsRaises
    \/ SkipIgnorableDir
    \/ EnterSubdir
    \/ ReturnDir

SpecDir == DirInit /\ [][DirNext]_vars

(***************************************************************************)
(* Claims about the elements of one file.                                  *)
(***************************************************************************)
CountedCollections == {"imports", "classes", "functions", "variables", "calls"}

\* The names a counted collection of the result holds.
CountedNames(collection) == {collection[i][1] : i \in 1..Len(collection)}

\* A name the noise filter lets through: at least three characters long and
\* not on the list of ignorable names.
PassesNoiseFilter(name) ==
    Len(name) >= _min_name_len /\ name \notin _ignorable_names

\* C9 as stated: in the dictionary file_elements returns, no name of
\* imports, classes, functions, variables or calls is an ignorable name.
C9_NoIgnorableNameInAnyCollection ==
    file_pc = "done" =>
        \A field \in CountedCollections :
            \A name \in CountedNames(result[field]) : PassesNoiseFilter(name)

\* C9 amended: in the dictionary file_elements returns, no name of classes,
\* functions, variables or calls is an ignorable name; imports are recorded
\* as they are written.
C9_NoIgnorableNameOutsideImports ==
    file_pc = "done" =>
        \A field \in CountedCollections \ {"imports"} :
            \A name \in CountedNames(result[field]) : PassesNoiseFilter(name)

\* A file with a function, a variable and calls has been read, and a call
\* the visitor recorded did not reach the result.
C9_Witness ==
    /\ file_pc = "done"
    /\ result.functions # <<>>
    /\ result.variables # <<>>
    /\ result.calls # <<>>
    /\ \E call \in Range(collector.calls) : call \notin CountedNames(result.calls)

\* The part of a recorded variable after its last scope separator.
LeafOf(path) ==
    LET bars == {i \in 1..Len(path) : Char(path, i) = "|"}
        last == IF bars = {} THEN 0
                ELSE CHOOSE i \in bars : \A j \in bars : j <= i
    IN  SubSeq(path, last + 1, Len(path))

\* C10: the count of a variable in the result is the number of distinct
\* scope paths the visitor recorded with that leaf name, every recorded leaf
\* has one entry, and no entry holds a scope separator.
C10_VariableCountIsDistinctPaths ==
    file_pc = "done" =>
        /\ \A i \in 1..Len(result.variables) :
              LET name == result.variables[i][1]
              IN  /\ "|" \notin CharsOf(name)
                  /\ result.variables[i][2] =
                         Cardinality({path \in Range(collector.variables) :
                                          LeafOf(path) = name})
        /\ \A path \in Range(collector.variables) :
              Cardinality({i \in 1..Len(result.variables) :
                               result.variables[i][1] = LeafOf(path)}) = 1

\* A variable recorded more often than it is counted: once under each of
\* two scope paths, and again under one of them.
C10_Witness ==
    /\ file_pc = "done"
    /\ \E i \in 1..Len(result.variables) :
          /\ result.variables[i][2] = 2
          /\ Cardinality({k \in 1..Len(collector.variables) :
                              LeafOf(collector.variables[k]) =
                                  result.variables[i][1]}) > 2

\* The path that qualifies the names of the next statement of the innermost
\* body.
ScopeInEffect(c, stack_) == scope_path(before_body_statement(c, stack_[Len(stack_)]))

\* The visitor returns from the handler of a class or function definition.
LeavesDefinition ==
    /\ file_pc = "visit"
    /\ Len(stack) > 1
    /\ stack[Len(stack)].node \in {"FunctionDef", "ClassDef"}
    /\ stack' = SubSeq(stack, 1, Len(stack) - 1)

\* C11: when the visitor has left a class or function definition, the scope
\* that qualifies the names that follow is the scope that was in effect where
\* the definition was met.
C11_ScopeRestoredOnLeaving ==
    [][LeavesDefinition =>
           ScopeInEffect(collector', stack') = stack[Len(stack)].path]_vars

\* The part of a recorded name before the last separator, "" without one.
QualifierOf(name, separator) ==
    LET places == {i \in 1..Len(name) : Char(name, i) = separator}
    IN  IF places = {} THEN ""
        ELSE SubSeq(name, 1, (CHOOSE i \in places : \A j \in places : j <= i) - 1)

DotCount(name) == Cardinality({i \in 1..Len(name) : Char(name, i) = "."})

RecordedDefinitions == Range(collector.functions) \cup Range(collector.classes)

\* C12 as stated: a recorded class, function or variable is qualified with
\* the bare name of one enclosing class or function, never with a chain of
\* scope names.
C12_OnlyImmediatelyEnclosingName ==
    /\ \A name \in RecordedDefinitions : DotCount(name) <= 1
    /\ \A path \in Range(collector.variables) :
          DotCount(QualifierOf(path, "|")) = 0

\* C12 amended: the qualifier of a recorded class, function or variable is
\* the whole recorded name of an enclosing class or function, which carries
\* its own qualifier in turn.
C12_QualifiedByRecordedName ==
    /\ \A name \in RecordedDefinitions :
          DotCount(name) > 0 => QualifierOf(name, ".") \in RecordedDefinitions
    /\ \A path \in Range(collector.variables) :
          "|" \in CharsOf(path) => QualifierOf(path, "|") \in RecordedDefinitions

\* A function recorded under a chain of two scopes and a variable recorded
\* under a qualified function name.
C12_Witness ==
    /\ file_pc = "visit"
    /\ \E name \in Range(collector.functions) : DotCount(name) = 2
    /\ \E path \in Range(collector.variables) :
          DotCount(QualifierOf(path, "|")) > 0

\* The visitor has handled the head of a function definition and stands
\* before the first statement of its body.
AfterFunctionHead ==
    /\ file_pc = "visit"
    /\ statement.node = "FunctionDef"
    /\ stack[Len(stack)].node = "FunctionDef"
    /\ stack[Len(stack)].first

\* The parameters of the definition that pass the noise filter.
CountedParameters == SelectSeq(statement.args, PassesNoiseFilter)

\* The variables the visitor recorded last, as many as there are such
\* parameters.
ParameterRecords ==
    SubSeq(collector.variables,
           Len(collector.variables) - Len(CountedParameters) + 1,
           Len(collector.variables))

RECURSIVE BoundNames(_)
BoundNames(target) ==
    CASE target.node = "Name" -> {target.id}
      [] target.node \in {"Tuple", "List"} ->
            UNION {BoundNames(target.elts[i]) : i \in 1..Len(target.elts)}
      [] OTHER -> {}

\* C14: when the last statement of the file is a for loop, every name its
\* target binds that passes the noise filter is among the variables of the
\* result.
C14_ForTargetNamesCounted ==
    (file_pc = "done" /\ statement.node = "For") =>
        \A name \in BoundNames(statement.target) :
            PassesNoiseFilter(name) => name \in CountedNames(result.variables)

\* C15: the imports of the result never hold an absent module name: a
\* relative import without a module name records nothing, whatever the alias.
C15_NoAbsentModuleInImports ==
    file_pc = "done" => NoneStr \notin CountedNames(result.imports)

\* The visitor meets the first statement of a class or function body, and
\* the statement has no body of its own.
MeetsFirstStatement ==
    /\ file_pc = "visit"
    /\ file_pc' = "visit"
    /\ Len(stack') = Len(stack)
    /\ stack[Len(stack)].node \in {"FunctionDef", "ClassDef"}
    /\ stack[Len(stack)].first
    /\ ~stack'[Len(stack)].first

\* C16: the first statement of a class or function body is left out only if
\* it is a non-empty string literal, which goes to docstrings; any other
\* first statement is traversed: an assignment to a name that passes the
\* noise filter records a variable, a call of such a name records a call.
C16_OnlyDocstringSkipped ==
    [][MeetsFirstStatement =>
           IF /\ statement'.node = "Expr"
              /\ statement'.value.node = "Str"
              /\ statement'.value.s # ""
           THEN collector' = [collector EXCEPT !.docstrings =
                                 Append(@, statement'.value.s)]
           ELSE /\ collector'.docstrings = collector.docstrings
                /\ (/\ statement'.node = "Assign"
                    /\ statement'.targets[1].node = "Name"
                    /\ PassesNoiseFilter(statement'.targets[1].id))
                   => Len(collector'.variables) = Len(collector.variables) + 1
                /\ (/\ statement'.node = "Expr"
                    /\ statement'.value.node = "Call"
                    /\ statement'.value.func.node = "Name"
                    /\ PassesNoiseFilter(statement'.value.func.id))
                   => Len(collector'.calls) = Len(collector.calls) + 1]_vars

\* C17: a call the visitor recorded is missing from the calls of the result
\* only if it is an operation on a variable of the file whose last dotted
\* component is on the list of ignorable names.
C17_OnlyVariableOperationsRemoved ==
    file_pc = "done" =>
        \A call \in Range(collector.calls) :
            call \notin CountedNames(result.calls) =>
                /\ DotCount(call) > 0
                /\ SubSeq(call, Len(QualifierOf(call, ".")) + 2, Len(call))
                       \in _ignorable_names
                /\ QualifierOf(call, ".") \in CountedNames(result.variables)

\* The collections of the result that come from the tree.
StructuralCollections ==
    {"docstrings", "imports", "classes", "functions", "variables", "strings",
     "calls"}

\* file_elements has returned and no tree was built.
ReturnedWithoutTree == file_pc = "done" /\ collector = <<>>

\* The result holds the header and the comments the lexical pass finds in
\* the lines, and nothing that comes from a tree.
HoldsLexicalElementsOnly(lines) ==
    LET found == tokenize_pass([lines |-> lines, read |-> 0])
    IN  /\ result.header \in clean_plain_text_results(found.header)
        /\ result.comments \in clean_each(found.comments)
        /\ \A field \in StructuralCollections : result[field] = <<>>

C19_UnhandledForTargetSkipped ==
    ~(file_pc = "raised" /\ statement.node = "For")

\* The files of the directory the walk was called on that were there when
\* the walk looked at them.
FilesOfDirectory ==
    {dir_tree.files[i] : i \in {k \in 1..Len(dir_tree.files) :
                                    exists(dir_tree.files[k])}}

\* The names of the files that have a record in what the walk returned.
RecordedFiles ==
    {dir_result.body[i].name :
     i \in {k \in 1..Len(dir_result.body) : dir_result.body[k].type = "file"}}

\* C20: a failure while extracting one file stays with that file: the walk
\* of the directory does not end in an exception, and when it is over every
\* file of the directory has its record.
C20_FileFailureContained ==
    /\ dir_pc # "raised"
    /\ dir_pc = "done" =>
           \A file \in FilesOfDirectory : file.name \in RecordedFiles

(***************************************************************************)
(* ignorable_comment on the comment tokens of a file.                      *)
(***************************************************************************)
CommentLeads == {"", " ", "  ", "!"}

CommentCores ==
    {"", "a", "ab", "foo", "foo bar", "TODO", "---", "12",
     "vim: ts=4", "vim:ts=4", "-*- mode: python -*-",
     "-*- coding: utf-8 -*-", "coding=utf8", "encoding", "/usr/bin/python"}

CommentTrails == {"", " "}

\* The COMMENT tokens the tokenizer hands to ignorable_comment: a '#' and
\* the rest of the line.
CommentTokens ==
    {_comment_start \o lead \o core \o trail :
        lead \in CommentLeads, core \in CommentCores, trail \in CommentTrails}

CommentInit ==
    /\ comment_line \in CommentTokens
    /\ ignorable = FALSE
    /\ comment_pc = "called"
    /\ SplitIdle
    /\ AggIdle
    /\ LocIdle
    /\ FileIdle
    /\ LexIdle
    /\ DirIdle
    /\ WordIdle
    /\ ClientIdle

IgnorableComment ==
    /\ comment_pc = "called"
    /\ ignorable' = ignorable_comment(comment_line)
    /\ comment_pc' = "returned"
    /\ UNCHANGED comment_line
    /\ UNCHANGED <<splitVars, aggVars, locVars, fileVars, lexVars, dirVars, wordVars, clientVars>>

CommentNext == IgnorableComment

SpecComment == CommentInit /\ [][CommentNext]_vars

(***************************************************************************)
(* text_extractor.py: all_words and its cache.                             *)
(***************************************************************************)
\* A file record as all_words_recursive reads it.
word_file(name, body, text_lang, code_lang) ==
    [name |-> name, type |-> "file", body |-> body,
     text_language |-> text_lang, code_language |-> code_lang]

\* The body of a code file: the elements of file_elements that hold text.
code_body(header_, comments_, docstrings_) ==
    [header |-> header_, comments |-> comments_, docstrings |-> docstrings_]

\* The one name of the model that matches constants.common_ignorable_files.
common_ignorable_files == {".gitignore"}

ignorable_filename(name) == name \in common_ignorable_files

\* extract_text_words on a text of plain words: the tokens of the text, those
\* without a letter taken out, each split by safe_camelcase_split.
RECURSIVE split_words(_)
split_words(words) ==
    IF words = <<>> THEN <<>>
    ELSE (IF CharsOf(Head(words)) \cap (LowerChars \cup UpperChars) = {}
          THEN <<>>
          ELSE safe_camelcase_split(Head(words)))
         \o split_words(Tail(words))

extract_text_words(body) == split_words(PySplit(body.text))

RECURSIVE words_of_chunks(_)
words_of_chunks(chunks) ==
    IF chunks = <<>> THEN <<>>
    ELSE extract_text_words(Text(Head(chunks))) \o words_of_chunks(Tail(chunks))

extract_code_words(body) ==
    (IF body.header # "" THEN extract_text_words(Text(body.header)) ELSE <<>>)
    \o words_of_chunks(body.comments)
    \o words_of_chunks(body.docstrings)

RECURSIVE all_words_recursive(_, _)
RECURSIVE all_words_of_body(_, _)

\* The loop of all_words_recursive over elements['body'].
all_words_of_body(items, filetype) ==
    IF items = <<>> THEN <<>>
    ELSE all_words_recursive(Head(items), filetype)
         \o all_words_of_body(Tail(items), filetype)

all_words_recursive(elements_, filetype) ==
    IF elements_ = None \/ "body" \notin DOMAIN elements_ THEN <<>>
    ELSE IF elements_.type = "file"
         THEN IF \/ ignorable_filename(elements_.name)
                 \/ elements_.body = Text("")
                 \/ elements_.text_language = NoneStr
                 \/ elements_.text_language \notin {"en", "unknown"}
                 \/ elements_.body = None
              THEN <<>>
              ELSE SelectSeq(
                       (IF filetype \in {"text", "all"}
                           /\ elements_.code_language = NoneStr
                        THEN extract_text_words(elements_.body) ELSE <<>>)
                       \o (IF filetype \in {"code", "all"}
                              /\ elements_.code_language # NoneStr
                           THEN extract_code_words(elements_.body) ELSE <<>>),
                       LAMBDA w : w # "")
         ELSE SelectSeq(all_words_of_body(elements_.body, filetype),
                        LAMBDA w : w # "")

\* What is kept under one key of the cache of one path: nothing, or a value.
nothing_cached == [saved |-> FALSE, value |-> <<>>]

\* cached_value(full_path, 'all_words'): the value saved last, or None.
cached_value(cache_) == cache_

\* save_cached_value(full_path, 'all_words', words)
save_cached_value(cache_, words) == [saved |-> TRUE, value |-> words]

\* 'if cached_words': None and the empty list are false.
truthy(cached_words) == cached_words.saved /\ cached_words.value # <<>>

(***************************************************************************)
(* The repositories all_words is called on.                                *)
(*   notes: a README in English.                                           *)
(*   tool:  one Python file with a header and a comment.                   *)
(*   both:  a README in English, a LISEZMOI in French, an ignorable file,  *)
(*          an unhandled file and a Python file in a subdirectory.         *)
(*   bare:  a directory without files.                                     *)
(***************************************************************************)
WordRepoPaths == {"notes", "tool", "both", "bare"}

WordRepoElements(path) ==
    CASE path = "notes" ->
            dir_dict("notes", <<word_file("README", Text("read me"), "en", NoneStr)>>)
      [] path = "tool" ->
            dir_dict("tool",
                <<word_file("a.py", code_body("parse", <<"the loop">>, <<>>),
                            "en", "Python")>>)
      [] path = "both" ->
            dir_dict("both",
                <<word_file("README", Text("read me 42"), "en", NoneStr),
                  word_file("LISEZMOI", Text("lisez moi"), "fr", NoneStr),
                  word_file(".gitignore", Text("build"), "en", NoneStr),
                  word_file("logo.png", None, NoneStr, NoneStr),
                  dir_dict("src",
                      <<word_file("b.py", code_body("", <<"parse it">>, <<"fooBar">>),
                                  "unknown", "Python")>>)>>)
      [] OTHER -> dir_dict("bare", <<>>)

MaxCalls == 3

FileTypes == {"text", "code", "all"}

WordsInit ==
    /\ word_wrapper \in {wrapper_dict(p, WordRepoElements(p)) : p \in WordRepoPaths}
    /\ cache = nothing_cached
    /\ word_calls = <<>>
    /\ SplitIdle
    /\ AggIdle
    /\ LocIdle
    /\ FileIdle
    /\ LexIdle
    /\ DirIdle
    /\ ComIdle
    /\ ClientIdle

\* A call of all_words, with what it found in the cache and what it left.
word_call(filetype, recache, returned, from_cache, cache_after) ==
    [filetype |-> filetype, recache |-> recache, returned |-> returned,
     from_cache |-> from_cache, cached_before |-> cache,
     cache_after |-> cache_after]

\* all_words returning what the cache holds.
AllWordsCached ==
    /\ Len(word_calls) < MaxCalls
    /\ \E filetype \in FileTypes :
          LET cached_words == cached_value(cache)
          IN  /\ truthy(cached_words)
              /\ word_calls' = Append(word_calls,
                                      word_call(filetype, FALSE, cached_words.value,
                                                TRUE, cache))
    /\ UNCHANGED <<word_wrapper, cache>>
    /\ UNCHANGED <<splitVars, aggVars, locVars, fileVars, lexVars, dirVars, comVars, clientVars>>

\* all_words computing the words and saving them.
AllWordsComputed ==
    /\ Len(word_calls) < MaxCalls
    /\ \E filetype \in FileTypes, recache \in BOOLEAN :
          LET cached_words == cached_value(cache)
              words == all_words_recursive(word_wrapper.elements, filetype)
          IN  /\ ~truthy(cached_words) \/ recache
              /\ cache' = save_cached_value(cache, words)
              /\ word_calls' = Append(word_calls,
                                      word_call(filetype, recache, words, FALSE,
                                                save_cached_value(cache, words)))
    /\ UNCHANGED word_wrapper
    /\ UNCHANGED <<splitVars, aggVars, locVars, fileVars, lexVars, dirVars, comVars, clientVars>>

WordsNext ==
    \/ AllWordsCached
    \/ AllWordsComputed

SpecWords == WordsInit /\ [][WordsNext]_vars

(***************************************************************************)
(* extractor_client.py: the methods of the client class Extractor.         *)
(***************************************************************************)
\* How a method ends: with a value, written as Python writes it, or with an
\* exception.
Returns(value) == [returned |-> value]

\* What the call on the Pyro proxy does: it returns the answer of the
\* server, or raises ConnectionClosedError, or raises another exception.
ProxyOutcomes == {"answer", "ConnectionClosedError", "Exception"}

\* The kinds of argument a method is called with.
IdKinds == {"int", "str", "float"}

\* _sanity_check_id(id): whether it raises ValueError.
_sanity_check_id_raises(id_kind) == id_kind \notin {"int", "str"}

\* The value of the name err where the names bound are those given: the
\* name is local to a handler with 'as err' and bound nowhere else.
lookup_err(bound) ==
    IF "err" \in bound THEN Returns("err") ELSE Raises("NameError")

\* The handler 'except Pyro4.errors.ConnectionClosedError:', which binds no
\* name: format(err) is evaluated before anything is logged.
connection_closed_handler(value) ==
    IF lookup_err({}) = Raises("NameError")
    THEN [outcome |-> Raises("NameError"), logged |-> <<>>]
    ELSE [outcome |-> Returns(value), logged |-> <<"Network connection lost">>]

\* The handler 'except Exception as err:'.
exception_handler(method, value) ==
    IF lookup_err({"err"}) = Raises("NameError")
    THEN [outcome |-> Raises("NameError"), logged |-> <<>>]
    ELSE [outcome |-> Returns(value),
          logged |-> <<method \o "() exception", "------ Pyro traceback ------",
                       "traceback">>]

\* The body shared by get_repo_path, get_elements, get_words and
\* get_identifiers; on_exception is what the second handler returns.
client_method(method, id_kind, proxy, on_exception) ==
    IF _sanity_check_id_raises(id_kind)
    THEN [outcome |-> Raises("ValueError"), logged |-> <<>>]
    ELSE CASE proxy = "answer" -> [outcome |-> Returns("answer"), logged |-> <<>>]
           [] proxy = "ConnectionClosedError" -> connection_closed_handler("[]")
           [] proxy = "Exception" -> exception_handler(method, on_exception)

\* _reconnect: 'except Exception:' binds no name either.
_reconnect(proxy) ==
    IF proxy = "answer" THEN [outcome |-> Returns("True"), logged |-> <<>>]
    ELSE IF lookup_err({}) = Raises("NameError")
         THEN [outcome |-> Raises("NameError"), logged |-> <<>>]
         ELSE [outcome |-> Returns("False"),
               logged |-> <<"Lost connection to server">>]

MaxClientCalls == 2

ClientInit ==
    /\ client_calls = <<>>
    /\ SplitIdle
    /\ AggIdle
    /\ LocIdle
    /\ FileIdle
    /\ LexIdle
    /\ DirIdle
    /\ ComIdle
    /\ WordIdle

\* One call of a method of the client.
ClientCall(method, id_kind, proxy, ended) ==
    /\ Len(client_calls) < MaxClientCalls
    /\ client_calls' = Append(client_calls,
                              [method |-> method, id |-> id_kind, proxy |-> proxy,
                               outcome |-> ended.outcome, logged |-> ended.logged])
    /\ UNCHANGED <<splitVars, aggVars, locVars, fileVars, lexVars, dirVars, comVars, wordVars>>

GetRepoPath ==
    \E id_kind \in IdKinds, proxy \in ProxyOutcomes :
        ClientCall("get_repo_path", id_kind, proxy,
                   client_method("get_repo_path", id_kind, proxy, "''"))

GetElements ==
    \E id_kind \in IdKinds, proxy \in ProxyOutcomes :
        ClientCall("get_elements", id_kind, proxy,
                   client_method("get_elements", id_kind, proxy, "[]"))

GetWords ==
    \E id_kind \in IdKinds, proxy \in ProxyOutcomes :
        ClientCall("get_words", id_kind, proxy,
                   client_method("get_words", id_kind, proxy, "[]"))

GetIdentifiers ==
    \E id_kind \in IdKinds, proxy \in ProxyOutcomes :
        ClientCall("get_identifiers", id_kind, proxy,
                   client_method("get_identifiers", id_kind, proxy, "[]"))

Reconnect ==
    \E proxy \in ProxyOutcomes :
        ClientCall("_reconnect", "int", proxy, _reconnect(proxy))

ClientNext ==
    \/ GetRepoPath
    \/ GetElements
    \/ GetWords
    \/ GetIdentifiers
    \/ Reconnect

SpecClient == ClientInit /\ [][ClientNext]_vars

\* The names of the file records of a directory dictionary that are Python
\* records with status success, subdirectories included, in the order of
\* the records.
RECURSIVE NamesOfSuccessRecords(_)
NamesOfSuccessRecords(items) ==
    IF items = <<>> THEN <<>>
    ELSE LET item == Head(items)
         IN  (IF item.type = "dir" THEN NamesOfSuccessRecords(item.body)
              ELSE IF item.code_language = "Python" /\ item.status = "success"
                   THEN Firsts(item.body.calls) \o Firsts(item.body.functions)
                        \o Firsts(item.body.classes)
                        \o Firsts(item.body.variables)
                        \o Firsts(item.body.imports)
                   ELSE <<>>)
             \o NamesOfSuccessRecords(Tail(items))

\* The statuses of the file records of a directory dictionary.
RECURSIVE StatusesIn(_)
StatusesIn(items) ==
    IF items = <<>> THEN {}
    ELSE (IF Head(items).type = "dir" THEN StatusesIn(Head(items).body)
          ELSE {Head(items).status})
         \cup StatusesIn(Tail(items))

modeline_comment(comment) ==
    \/ vim_comment(strip_comment_char(comment))
    \/ emacs_comment(strip_comment_char(comment))

\* C22: ignorable_comment(line) is true exactly when the stripped line is
\* shorter than 4 characters, or holds no alphabetic character, or is a
\* shebang line, an encoding declaration or a modeline comment of an editor.
C22_IgnorableExactly ==
    comment_pc = "returned" =>
        (ignorable <=>
            \/ Len(strip(comment_line)) < _min_comment_len
            \/ CharsOf(strip(comment_line)) \cap (LowerChars \cup UpperChars) = {}
            \/ hashbang_comment(strip(comment_line))
            \/ coding_comment(strip(comment_line))
            \/ modeline_comment(strip(comment_line)))

ReposWith(list, component) ==
    {i \in 1..Len(list) :
        \E name \in NamesIn(list[i].elements) :
            component \in Range(CountedComponents(name))}

\* C24: components are counted once per repository and the counts are added
\* across repositories: the final count of a component is the number of
\* repositories in which it occurs, and never more than the number of
\* repositories processed.
C24_CountIsNumberOfRepos ==
    agg_pc = "done" =>
        \A i \in 1..Len(table) :
            /\ table[i][2] = Cardinality(ReposWith(elements_list, table[i][1]))
            /\ table[i][2] <= Len(elements_list)

\* C25: the table is built with the safe splitter: a name with two adjacent
\* uppercase letters anywhere in it, such as aFastNDecoder, is not split at a
\* case transition and is counted as one whole component.
C25_AdjacentCapitalsNotSplit ==
    agg_pc = "done" =>
        \A i \in 1..Len(elements_list) :
            \A name \in NamesIn(elements_list[i].elements) :
                (/\ _two_capitals(name)
                 /\ CharsOf(name) \cap (_hard_split_chars \cup NonAsciiChars) = {}
                 /\ Len(name) <= _max_name_length)
                    => name \in KeysOf(table)

\* C26: in every sequence of calls of all_words on one repository, a call
\* with filetype 'text' returns words of files that are not code only and a
\* call with filetype 'code' words of code files only, whatever earlier calls
\* asked for; a cached result is returned only when one exists and recache is
\* not set; with recache set the words are computed anew and the cache entry
\* is replaced by them.
C26_WordsByFiletypeAndCache ==
    \A i \in 1..Len(word_calls) :
        LET call == word_calls[i]
        IN  /\ call.filetype = "text"
                => Range(call.returned)
                      \subseteq Range(all_words_recursive(word_wrapper.elements, "text"))
            /\ call.filetype = "code"
                => Range(call.returned)
                      \subseteq Range(all_words_recursive(word_wrapper.elements, "code"))
            /\ call.from_cache => (call.cached_before.saved /\ ~call.recache)
            /\ call.recache
                => /\ call.returned
                        = all_words_recursive(word_wrapper.elements, call.filetype)
                   /\ call.cache_after = [saved |-> TRUE, value |-> call.returned]

\* The names of a list in the order of their first appearance.
first_appearance(seq) == Firsts(Counter_from(<<>>, seq))

\* The place of the first appearance of a name in a list.
first_index(seq, name) ==
    CHOOSE n \in 1..Len(seq) :
        seq[n] = name /\ \A m \in 1..(n - 1) : seq[m] # name

\* The pairs hold every name of the list once, with the number of its
\* occurrences, by decreasing count.
CountedByFrequency(pairs, seq) ==
    /\ \A i, j \in 1..Len(pairs) : pairs[i][1] = pairs[j][1] => i = j
    /\ Range(Firsts(pairs)) = Range(seq)
    /\ \A i \in 1..Len(pairs) :
          pairs[i][2] = Cardinality({n \in 1..Len(seq) : seq[n] = pairs[i][1]})
    /\ \A i, j \in 1..Len(pairs) : i < j => pairs[i][2] >= pairs[j][2]

\* Pairs of equal count stand in the order of first appearance in the list.
TiesByFirstAppearance(pairs, seq) ==
    \A i, j \in 1..Len(pairs) :
        (i < j /\ pairs[i][2] = pairs[j][2])
            => first_index(seq, pairs[i][1]) < first_index(seq, pairs[j][1])

RECURSIVE ascending(_)
ascending(S) ==
    IF S = {} THEN <<>>
    ELSE LET least == CHOOSE x \in S : \A y \in S : x <= y
         IN  <<least>> \o ascending(S \ {least})

\* The places, from start on, of the comments that are not ignorable.
gathered(tokens, start) ==
    {i \in start..Len(tokens) :
        tokens[i].kind = "COMMENT" /\ ~ignorable_comment(tokens[i].thing)}

\* Between the comments at p and q there are only line breaks and comments
\* that are not ignorable.
adjoining(tokens, p, q) ==
    \A k \in p..q : tokens[k].kind = "NL" \/ k \in gathered(tokens, p)

\* The text of the comments at the places of a list, one to a line.
RECURSIVE comment_lines(_, _)
comment_lines(tokens, places) ==
    IF places = <<>> THEN ""
    ELSE strip_comment_char(tokens[Head(places)].thing) \o "\n"
         \o comment_lines(tokens, Tail(places))

\* The entries the comments from start on make: a comment opens an entry if
\* no earlier comment adjoins it, and the entry holds the comments that
\* adjoin it.
entries_of(tokens, start) ==
    LET places == gathered(tokens, start)
        opening == {i \in places :
                       ~\E p \in places : p < i /\ adjoining(tokens, p, i)}
        leaders == ascending(opening)
    IN  [n \in 1..Len(leaders) |->
            strip(comment_lines(tokens,
                      ascending({q \in places : q >= leaders[n]
                                    /\ adjoining(tokens, leaders[n], q)})))]

\* Where the comment loop starts: at the token that ended the header, or
\* behind it if it is the string taken as the header.
comment_start(tokens) ==
    LET stop == header_loop(tokens, 1, "")
    IN  IF tokens[stop.at].kind = "STRING" THEN stop.at + 1 ELSE stop.at

\* C28: the comment pass merges comment lines that are not ignorable and
\* have only line-break tokens between them into one entry; any other token,
\* code or an ignorable comment, closes the entry; every comment line behind
\* the header that is not ignorable is in exactly one entry, those of a
\* chunk still open at the end of the file included.
C28_CommentChunks ==
    [][file_pc = "tokenize"
          => comments' = entries_of(tokenize(stream), comment_start(tokenize(stream)))]_vars

\* The pass has gathered two entries from a file that ends in a comment, the
\* first made of two comment lines.
C28_Witness ==
    /\ file_pc = "parse"
    /\ source = <<"import foo", "# foo", "# bar", "#!sh", "# foo">>
    /\ comments = <<"foo\nbar", "foo">>

\* C29: when the connection is lost during get_repo_path, get_elements,
\* get_words or get_identifiers, the method logs the loss and returns an
\* empty list; it raises no exception.
C29_ConnectionLossReturnsEmptyList ==
    \A i \in 1..Len(client_calls) :
        LET call == client_calls[i]
        IN  (/\ call.method \in {"get_repo_path", "get_elements", "get_words",
                                 "get_identifiers"}
             /\ call.id \in {"int", "str"}
             /\ call.proxy = "ConnectionClosedError")
                => /\ call.outcome = Returns("[]")
                   /\ call.logged # <<>>

\* The string literals, the names called and the names in an expression.
RECURSIVE strings_in(_)
strings_in(node) ==
    CASE node.node = "Str" -> {node.s}
      [] node.node \in {"List", "Tuple"} ->
            UNION {strings_in(node.elts[i]) : i \in 1..Len(node.elts)}
      [] node.node = "Attribute" -> strings_in(node.value)
      [] node.node = "Subscript" -> strings_in(node.value) \cup strings_in(node.slice)
      [] node.node = "Call" ->
            UNION {strings_in(node.args[i]) : i \in 1..Len(node.args)}
      [] OTHER -> {}

RECURSIVE names_in(_)
names_in(node) ==
    CASE node.node = "Name" -> {node.id}
      [] node.node \in {"List", "Tuple"} ->
            UNION {names_in(node.elts[i]) : i \in 1..Len(node.elts)}
      [] node.node = "Attribute" -> names_in(node.value)
      [] node.node = "Subscript" -> names_in(node.value) \cup names_in(node.slice)
      [] OTHER -> {}

\* What a list has gained: the items behind those it had before.
gained(before, after) == Range(SubSeq(after, Len(before) + 1, Len(after)))

\* A step in which the visitor has visited a for loop.
VisitedFor == visited' = visited + 1 /\ statement'.node = "For"

====
